---- MODULE Spec2Model ----
(***************************************************************************)
(* Model of the streaming chat + tool-calling loop of GEMMIS:              *)
(*   - OllamaClient.chat_stream   (gemmis/ollama_client.py)                *)
(*   - the turn loop of async_main and safe_tool_executor (gemmis/app.py)  *)
(*   - AppState.add_message / get_chat_messages (gemmis/state.py)          *)
(*   - is_sensitive / execute_tool_call, run_command, read_file,           *)
(*     write_file, list_files (gemmis/tools.py), and execute_tool_call of  *)
(*     the package gemmis/tools/                                           *)
(*                                                                         *)
(* Texts are sequences of one-character strings.  Python's None is the     *)
(* one-element sequence None, which no text equals.                        *)
(*                                                                         *)
(* The tool registry is the one of gemmis/tools.py, the module that        *)
(* defines is_sensitive, which app.py imports next to execute_tool_call    *)
(* (the package gemmis/tools/ has the same import name and defines no      *)
(* is_sensitive).                                                          *)
(*                                                                         *)
(* chat_stream takes its executor as a parameter: app.py passes            *)
(* safe_tool_executor, the default is None (execute_tool_call).  Both are  *)
(* inputs of the model.  The call of safe_tool_executor passes two         *)
(* arguments to three parameters, so its body is never entered; the body   *)
(* and the handling of its boolean result are modelled all the same.       *)
(***************************************************************************)
EXTENDS Integers, Sequences, FiniteSets, TLC

(* ------------------------------ bounds -------------------------------- *)
\* lines the server sends in one response before the connection ends
MaxLines == 2
\* largest value of the wall clock (time.time())
MaxClock == 3
\* chat_stream invocations explored in one turn
MaxCalls == 7
\* components of a path handed to a file tool
MaxPathLen == 3
\* characters of a command handed to is_sensitive
MaxCmdLen == 5

(* -------------------------- program constants ------------------------- *)
max_tool_iterations == 5
max_context_messages == 50

(* ------------------------------ texts --------------------------------- *)
None == <<"None">>

RECURSIVE Strip(_)
\* str.strip(): drop leading and trailing blanks
Strip(s) ==
    IF s = <<>> THEN s
    ELSE IF Head(s) = " " THEN Strip(Tail(s))
    ELSE IF s[Len(s)] = " " THEN Strip(SubSeq(s, 1, Len(s) - 1))
    ELSE s

RECURSIVE FirstWord(_)
\* cmd.split()[0] of a stripped, non-empty command
FirstWord(s) ==
    IF s = <<>> \/ Head(s) = " " THEN <<>>
    ELSE <<Head(s)>> \o FirstWord(Tail(s))

\* the Python test `p in s` on strings
Contains(s, p) ==
    \E i \in 1..(Len(s) - Len(p) + 1) : SubSeq(s, i, i + Len(p) - 1) = p

(* --------------------------- tool registry ---------------------------- *)
FUNCTION_HANDLERS ==
    {"run_command", "get_system_info", "get_cpu_usage", "get_memory_usage",
     "get_disk_space", "get_gpu_stats", "read_file", "write_file",
     "list_files", "find_large_files", "system_update", "run_python"}

dangerous ==
    { <<"r","m">>, <<"s","u","d","o">>, <<"k","i","l","l">>,
      <<"k","i","l","l","a","l","l">>, <<"p","k","i","l","l">>,
      <<"r","e","b","o","o","t">>, <<"s","h","u","t","d","o","w","n">>,
      <<"c","h","m","o","d">>, <<"c","h","o","w","n">>, <<"m","v">>,
      <<"c","p">>, <<"m","k","d","i","r">>, <<"t","o","u","c","h">> }

\* tool arguments: the keys the tools read; `command` is "" when the key is absent
NoArgs == [keys |-> "none", command |-> <<>>]

\* a mistaken classification that looks at the first word only
is_sensitive_first_word_only(tool_name, args) ==
    IF tool_name \in {"write_file", "system_update", "run_python"} THEN TRUE
    ELSE IF tool_name = "run_command" THEN
        LET cmd == Strip(args.command) IN
        IF cmd = <<>> THEN FALSE
        ELSE FirstWord(cmd) \in dangerous
    ELSE FALSE

is_sensitive(tool_name, args) ==
    IF tool_name \in {"write_file", "system_update", "run_python"} THEN TRUE
    ELSE IF tool_name = "run_command" THEN
        LET cmd == Strip(args.command) IN
        IF cmd = <<>> THEN FALSE
        ELSE \/ FirstWord(cmd) \in dangerous
             \/ Contains(cmd, <<"r","m"," ">>)
             \/ Contains(cmd, <<"s","u","d","o"," ">>)
    ELSE FALSE

\* `handler(**arguments)` binds: every parameter without a default gets a
\* value and no key is left over (the argument sets the calls of the model use)
Binds(tool_name, args) ==
    CASE tool_name \in {"list_files", "find_large_files"} ->
             args.keys \in {"none", "directory"}
      [] tool_name = "write_file" -> args.keys = "filepath,content"
      [] tool_name = "read_file" -> args.keys = "filepath"
      [] tool_name = "run_command" -> args.keys = "command"
      [] tool_name = "run_python" -> args.keys = "code"
      [] tool_name = "get_container_logs" -> args.keys = "container_id"
      [] tool_name = "git_commit" -> args.keys = "message"
      [] OTHER -> args.keys = "none"

\* what a handler does when it is run: it returns its mapping, or it raises
HandlerOutcomes == {"ok", "raise"}

\* run_python runs the given code with exec(): the code may also raise
\* SystemExit, which is not an Exception
BodyOutcomes(tool_name) ==
    IF tool_name = "run_python" THEN HandlerOutcomes \cup {"exit"}
    ELSE HandlerOutcomes

\* outcomes of `handler(**arguments)`: those of the handler's body, or the
\* TypeError of a call whose arguments do not bind
CallOutcomes(tool_name, args) ==
    IF Binds(tool_name, args) THEN BodyOutcomes(tool_name) ELSE {"TypeError"}

\* results are named by the key that tells them apart: a mapping holding
\* `files` (list_files), `success` (write_file), another success mapping
\* `data`, a mapping holding `error`, and the booleans a confirmer returns
HandlerResult(tool_name) ==
    CASE tool_name = "list_files" -> "files"
      [] tool_name = "write_file" -> "success"
      [] OTHER -> "data"

\* FUNCTION_HANDLERS of the package gemmis/tools/
PACKAGE_FUNCTION_HANDLERS ==
    {"list_containers", "get_container_logs", "get_git_status", "git_commit"}

\* execute_tool_call over a registry: [result, ran, raised] for an outcome of
\* the handler call; `ran` tells whether the handler's body was entered,
\* `raised` whether the call of execute_tool_call itself raised.  The
\* `except Exception` clause lets SystemExit pass
execute_tool_call_of(handlers, tool_name, outcome) ==
    IF tool_name \notin handlers
    THEN [result |-> "error", ran |-> FALSE, raised |-> FALSE]
    ELSE CASE outcome = "ok" ->
                [result |-> HandlerResult(tool_name), ran |-> TRUE, raised |-> FALSE]
           [] outcome = "exit" ->
                [result |-> "none", ran |-> TRUE, raised |-> TRUE]
           [] OTHER ->
                [result |-> "error", ran |-> outcome = "raise", raised |-> FALSE]

\* execute_tool_call of gemmis/tools.py
execute_tool_call(tool_name, outcome) ==
    execute_tool_call_of(FUNCTION_HANDLERS, tool_name, outcome)

IsMapping(result) == result \notin {"True", "False"}
HasErrorKey(result) == result = "error"

\* json.dumps of a tool result
JsonDumps(result) ==
    CASE result = "True" -> <<"t","r","u","e">>
      [] result = "False" -> <<"f","a","l","s","e">>
      [] OTHER -> <<"{", result, "}">>

(* ------------------------- the server's lines ------------------------- *)
ListFilesCall == [name |-> "list_files",
                  arguments |-> [keys |-> "directory", command |-> <<>>]]
WriteFileCall == [name |-> "write_file",
                  arguments |-> [keys |-> "filepath,content", command |-> <<>>]]
\* an entry whose function has no name: skipped by chat_stream
NamelessCall == [name |-> "", arguments |-> NoArgs]

\* an `arguments` string that is not JSON
MalformedArgs == [keys |-> "unparsable", command |-> <<>>]
MalformedListCall == [name |-> "list_files", arguments |-> MalformedArgs]
MalformedWriteCall == [name |-> "write_file", arguments |-> MalformedArgs]

\* a mistaken fallback that hands the unparsed text on
ParseArgsKeepsText(a) == a

\* `json.loads(tool_args_json)`, and {} when it raises
ParseArgs(a) == IF a = MalformedArgs THEN NoArgs ELSE a

\* a line of the response: `raw` tells a JSON object from text that is not
\* JSON and from the empty line; the other fields are what the text holds
\* `tool_calls` is message.tool_calls, `top_tool_calls` the top-level
\* tool_calls and `tool_use` message.tool_use; <<>> stands for an absent key
Line(content, calls, done) ==
    [raw |-> "json", content |-> content, tool_calls |-> calls,
     top_tool_calls |-> <<>>, tool_use |-> <<>>, done |-> done]

LineSet ==
    { Line(<<"l","o">>, <<>>, FALSE),
      Line(<<>>, <<>>, FALSE),
      Line(<<>>, <<ListFilesCall>>, FALSE),
      Line(<<"a">>, <<WriteFileCall, NamelessCall, ListFilesCall>>, FALSE),
      Line(<<>>, <<>>, TRUE),
      Line(<<"l","o">>, <<>>, TRUE) }

NoLine == Line(<<>>, <<>>, FALSE)

\* a line cut off before its closing brace: its text names content, a tool
\* call and done, but it is not JSON
TruncatedLine ==
    [raw |-> "junk", content |-> <<"x">>, tool_calls |-> <<ListFilesCall>>,
     top_tool_calls |-> <<>>, tool_use |-> <<>>, done |-> TRUE]
\* a blank line
EmptyLine ==
    [raw |-> "empty", content |-> <<>>, tool_calls |-> <<>>,
     top_tool_calls |-> <<>>, tool_use |-> <<>>, done |-> FALSE]

\* a final line that still carries a tool call and content
DoneLines ==
    { [raw |-> "json", content |-> <<"a">>, tool_calls |-> <<ListFilesCall>>,
       top_tool_calls |-> <<>>, tool_use |-> <<>>, done |-> TRUE] }

\* lines of a degraded transport
NoiseLines == {TruncatedLine, EmptyLine}

\* lines whose tool calls carry malformed arguments
MalformedArgsLines ==
    { [raw |-> "json", content |-> <<"a">>,
       tool_calls |-> <<MalformedListCall, MalformedWriteCall, ListFilesCall>>,
       top_tool_calls |-> <<>>, tool_use |-> <<>>, done |-> FALSE] }

ReadFileCall == [name |-> "read_file",
                 arguments |-> [keys |-> "filepath", command |-> <<>>]]

\* lines that hold descriptors at more than one location, or at a later one
\* only
MultiLocationLines ==
    { [raw |-> "json", content |-> <<>>, tool_calls |-> <<ListFilesCall>>,
       top_tool_calls |-> <<WriteFileCall>>, tool_use |-> <<ReadFileCall>>,
       done |-> FALSE],
      [raw |-> "json", content |-> <<>>, tool_calls |-> <<>>,
       top_tool_calls |-> <<WriteFileCall>>, tool_use |-> <<ReadFileCall>>,
       done |-> FALSE],
      [raw |-> "json", content |-> <<"a">>, tool_calls |-> <<>>,
       top_tool_calls |-> <<>>, tool_use |-> <<ReadFileCall>>,
       done |-> FALSE] }

\* a mistaken lookup that takes the descriptors of every location
FindToolCallsEverywhere(l) == l.tool_calls \o l.top_tool_calls \o l.tool_use

\* the lookup of chat_stream: message.tool_calls, else the top-level
\* tool_calls, else message.tool_use (`if not tool_calls` at each step)
FindToolCalls(l) ==
    IF l.tool_calls # <<>> THEN l.tool_calls
    ELSE IF l.top_tool_calls # <<>> THEN l.top_tool_calls
    ELSE l.tool_use

\* a reader that takes whatever fields the text shows
JsonLoadsLenient(l) == TRUE

\* `json.loads(line)` returns (TRUE) or raises JSONDecodeError (FALSE)
JsonLoadsOk(l) == l.raw = "json"

(* ------------------------------ StreamStats --------------------------- *)
\* first_token_time = 0 stands for None (the clock starts at 1)
NewStats(t) ==
    [tokens_generated |-> 0, start_time |-> t, first_token_time |-> 0,
     end_time |-> 0, full_text |-> <<>>]

\* fallback of count_tokens (tiktoken is not importable): len(text) // 4
count_tokens(text) == Len(text) \div 4

\* a mistaken count: one token per character
update_token_count_per_char(st) ==
    IF st.full_text # <<>>
    THEN [st EXCEPT !.tokens_generated = Len(st.full_text)]
    ELSE st

update_token_count(st) ==
    IF st.full_text # <<>>
    THEN [st EXCEPT !.tokens_generated = count_tokens(st.full_text)]
    ELSE st

(* ------------------------------ events -------------------------------- *)
TokenEvent(tok) == [token |-> tok, stats |-> <<>>, tool_info |-> <<>>]
StatsEvent(st) == [token |-> <<>>, stats |-> <<st>>, tool_info |-> <<>>]
ToolCallEvent(tool_name, args, result) ==
    [token |-> <<>>, stats |-> <<>>,
     tool_info |-> <<[tool_name |-> tool_name, arguments |-> args,
                      result |-> result]>>]

(* ------------------------------ messages ------------------------------ *)
\* a message of state.messages; tool_calls = <<>> and name = "" stand for
\* an absent key
Msg(role, content) ==
    [role |-> role, content |-> content, tool_calls |-> <<>>, name |-> ""]

\* app.py: the assistant message carrying the call
AssistantCallMsg(info) ==
    [role |-> "assistant", content |-> None,
     tool_calls |-> <<[name |-> info.tool_name, arguments |-> info.arguments]>>,
     name |-> ""]

\* app.py: the tool message carrying the result
ToolResultMsg(info) ==
    [role |-> "tool", content |-> JsonDumps(info.result),
     tool_calls |-> <<>>, name |-> info.tool_name]

\* app.py: "EXEC_TOOL: name(args)" shown while the tool event is handled
ToolMsgText(info) == <<"EXEC_TOOL", info.tool_name>>

SYSTEM_PROMPT == <<"s","y","s">>

RECURSIVE SelectNonSystem(_)
SelectNonSystem(ms) ==
    IF ms = <<>> THEN <<>>
    ELSE IF Head(ms).role # "system"
         THEN <<Head(ms)>> \o SelectNonSystem(Tail(ms))
         ELSE SelectNonSystem(Tail(ms))

RECURSIVE SelectSystem(_)
SelectSystem(ms) ==
    IF ms = <<>> THEN <<>>
    ELSE IF Head(ms).role = "system"
         THEN <<Head(ms)>> \o SelectSystem(Tail(ms))
         ELSE SelectSystem(Tail(ms))

LastN(ms, n) == SubSeq(ms, Len(ms) - n + 1, Len(ms))

\* SessionManager.get_context: the rows of the session, cut to the most
\* recent max_context_messages
get_context(rows) ==
    IF Len(rows) > max_context_messages
    THEN LET system_msgs == SelectSystem(rows)
             other_msgs == SelectNonSystem(rows)
             recent_count == max_context_messages - Len(system_msgs)
         IN IF recent_count > 0
            THEN system_msgs \o
                 (IF Len(other_msgs) > recent_count
                  THEN LastN(other_msgs, recent_count) ELSE other_msgs)
            ELSE SubSeq(system_msgs, 1, max_context_messages)
    ELSE rows

RECURSIVE RowsToMessages(_)
\* state.py: {"role": msg.role, "content": msg.content} for each row
RowsToMessages(rows) ==
    IF rows = <<>> THEN <<>>
    ELSE <<Msg(Head(rows).role, Head(rows).content)>> \o RowsToMessages(Tail(rows))

\* state.py get_chat_messages, first half: state.messages after the reload
ReloadMessages(useMem, ms, rows) ==
    IF useMem THEN RowsToMessages(SelectNonSystem(get_context(rows))) ELSE ms

\* a mistaken conversion that also blanks the content of tool results
ConvertMessageBlanksResults(m) ==
    IF m.tool_calls # <<>> \/ m.role = "tool"
    THEN [role |-> m.role, content |-> None, tool_calls |-> m.tool_calls, name |-> ""]
    ELSE [role |-> m.role, content |-> m.content, tool_calls |-> <<>>, name |-> ""]

\* the body of the conversion loop: `if "tool_calls" in m` the calls are
\* kept and the content is None, else the content is kept
ConvertMessage(m) ==
    IF m.tool_calls # <<>>
    THEN [role |-> m.role, content |-> None, tool_calls |-> m.tool_calls, name |-> ""]
    ELSE [role |-> m.role, content |-> m.content, tool_calls |-> <<>>, name |-> ""]

RECURSIVE ConvertMessages(_)
\* state.py get_chat_messages, second half: the conversion loop
ConvertMessages(ms) ==
    IF ms = <<>> THEN <<>>
    ELSE <<ConvertMessage(Head(ms))>> \o ConvertMessages(Tail(ms))

get_chat_messages(ms) == <<Msg("system", SYSTEM_PROMPT)>> \o ConvertMessages(ms)

\* SessionManager.add_message / Store.add_message: one row at the end
StoreAdd(useMem, rows, role, content) ==
    IF useMem THEN Append(rows, [role |-> role, content |-> content]) ELSE rows

(* ------------------------------ state --------------------------------- *)
VARIABLES
    driver,            \* who pulls the generator: the app's turn loop or a consumer that drains it
    tool_executor,     \* the executor handed to chat_stream: "safe_tool_executor" or "None"
    use_memory,        \* state.use_memory
    userAnswer,        \* what the user types at the confirmation prompt
    now,               \* time.time()
    pc,                \* position of the consumer
    status,            \* state.status
    messages,          \* state.messages
    store,             \* rows of the current session in the transcript store
    current_response,  \* state.current_response
    tools_enabled,     \* local of the turn loop
    tool_iterations,   \* local of the turn loop
    gen,               \* position of the chat_stream generator
    pulling,           \* the consumer waits for the generator's next event
    line,              \* the line being processed
    toolIdx,           \* index into the line's tool list
    stats,             \* the StreamStats of the call
    error,             \* the exception the generator raised
    conn,              \* the response stream of the call: "none", "open" or "closed"
    events,            \* history: events yielded by the current call
    received,          \* history: lines read by the current call
    attempted,         \* history: tool calls handed to the executor by the current call
    confirmations,     \* history: answers the confirmer returned in the current call
    handlerRuns,       \* history: tool handlers run by the current call
    handled,           \* history: the tool event the turn loop handled last
    callLog,           \* history: the chat_stream calls of the turn
    sent,              \* history: the message list of the latest call
    call,              \* a direct call of a registry function: its arguments
    ret,               \* what that call returned and did
    current_session_id,  \* state.current_session_id
    manager_session_id,  \* SessionManager._current_session_id
    sessions,          \* rows of the sessions table of the transcript store
    db,                \* rows of the messages table of the transcript store
    system_stats,      \* state.system_stats
    entries            \* MemoryStore._entries, in insertion order

vars == <<driver, tool_executor, use_memory, userAnswer, now, pc, status,
          messages, store, current_response, tools_enabled, tool_iterations,
          gen, pulling, line, toolIdx, stats, error, conn, events, received,
          attempted, confirmations, handlerRuns, handled, callLog, sent,
          call, ret, current_session_id, manager_session_id, sessions, db,
          system_stats, entries>>

\* the memory package: sessions, transcript rows and the key-value store
memoryVars == <<current_session_id, manager_session_id, sessions, db,
                system_stats, entries>>

inputVars == <<driver, tool_executor, use_memory, userAnswer, call, ret>>
appVars == <<status, messages, store, current_response, tools_enabled,
             tool_iterations, handled, callLog, sent>>
toolHist == <<attempted, confirmations, handlerRuns>>

Executors == {"safe_tool_executor", "None"}

InitCommon ==
    /\ tool_executor \in Executors
    /\ now = 1
    /\ pc = "idle"
    /\ status = "READY"
    /\ messages = <<>>
    /\ store = <<>>
    /\ current_response = <<>>
    /\ tools_enabled = TRUE
    /\ tool_iterations = 0
    /\ gen = "none"
    /\ pulling = FALSE
    /\ line = NoLine
    /\ toolIdx = 1
    /\ stats = NewStats(0)
    /\ error = ""
    /\ conn = "none"
    /\ events = <<>>
    /\ received = <<>>
    /\ attempted = <<>>
    /\ confirmations = <<>>
    /\ handlerRuns = <<>>
    /\ handled = <<>>
    /\ callLog = <<>>
    /\ sent = <<>>
    /\ current_session_id = None
    /\ manager_session_id = None
    /\ sessions = <<>>
    /\ db = <<>>
    /\ system_stats = <<>>
    /\ entries = <<>>

\* the app after start-up: a fresh session, persistence on or off
Init ==
    /\ driver = "app"
    /\ use_memory \in BOOLEAN
    /\ userAnswer \in {"y", "n"}
    /\ call = <<>> /\ ret = <<>>
    /\ InitCommon

\* one chat_stream call pulled to its end
InitDrain(d) ==
    /\ driver = d
    /\ use_memory = FALSE
    /\ userAnswer \in {"y", "n"}
    /\ call = <<>> /\ ret = <<>>
    /\ InitCommon

InitEngine == InitDrain("drain")

\* the consumers that drain one call; they differ in what the server sends
Drains == {"drain", "drain noise", "drain arguments", "drain locations",
           "drain stop", "drain done"}

\* a registry function called directly, outside any turn
InitDirect(fn) ==
    /\ driver = fn
    /\ use_memory = FALSE
    /\ userAnswer = "n"
    /\ InitCommon
    /\ tool_executor = "None"

(* ------------------ chat_stream (the generator) ----------------------- *)
\* parameters of `async def safe_tool_executor(tool_call, tool_name, tool_args)`
safe_tool_executor_params == <<"tool_call", "tool_name", "tool_args">>
\* the call `tool_executor(tool_name, tool_args)` of chat_stream
ExecutorCallArgs(tool_name, tool_args) == <<tool_name, tool_args>>

\* Python binds positional arguments to parameters without defaults: the
\* call raises TypeError unless the counts agree
BindsTo(params, args) == Len(params) = Len(args)

\* body of safe_tool_executor: the answer typed at the prompt decides
safe_tool_executor(response) == IF response = "y" THEN "True" ELSE "False"

\* history entry: a call handed to the executor, and whether running it raised
Attempt(tc, failed) ==
    [name |-> tc.name, arguments |-> tc.arguments, failed |-> failed]

\* a stream that is closed only when its block is left normally
ExitStreamOnNormalExit(c, how) ==
    IF c = "open" /\ how = "normal" THEN "closed" ELSE c

\* `async with client.stream(...) as response`: leaving the block closes the
\* response, whether the block is left normally, by an exception, or by the
\* GeneratorExit that aclose() throws into a generator abandoned at a yield
ExitStream(c, how) == IF c = "open" THEN "closed" ELSE c

Raise(exc) ==
    /\ gen' = "raised"
    /\ error' = exc
    /\ pulling' = FALSE

\* a mistaken emission that hands a new event out ahead of the waiting ones
YieldAheadOfEarlier(ev) ==
    /\ events' = <<[ev |-> ev, at |-> now]>> \o events
    /\ pulling' = FALSE

\* the history keeps each yielded event with the time of the yield
Yield(ev) ==
    /\ events' = Append(events, [ev |-> ev, at |-> now])
    /\ pulling' = FALSE

\* a mistaken test that never sees the end of the stream
DoneIgnored(l) == FALSE

\* data.get("done", False)
Done(l) == l.done

\* `if data.get("done")`: set end_time and leave the loop, or read on
AfterContent(st, l) ==
    IF Done(l)
    THEN /\ stats' = [st EXCEPT !.end_time = now]
         /\ gen' = "final"
         /\ conn' = ExitStream(conn, "normal")
    ELSE /\ stats' = st
         /\ gen' = "read"
         /\ UNCHANGED conn

\* time.time() never runs backwards and is read up to MaxClock.  Waiting for
\* a line takes no measurable time or one tick when a single call is
\* observed; the turn loop never reads the clock, there each wait is a tick
ClockSteps == IF driver = "drain" THEN {0, 1} ELSE {1}

\* the lines the server may send: a single observed call is also fed the
\* lines of a degraded transport, tool calls with malformed arguments, or
\* descriptors at several locations
ServerLines(d) ==
    CASE d = "drain noise" -> LineSet \cup NoiseLines
      [] d = "drain arguments" -> LineSet \cup MalformedArgsLines
      [] d = "drain locations" -> LineSet \cup MultiLocationLines
      [] d = "drain done" -> LineSet \cup DoneLines
      [] OTHER -> LineSet
Tick(t, d) == IF t + d <= MaxClock THEN t + d ELSE t

\* first resumption: the StreamStats is created and the request is sent
Open ==
    /\ gen = "start" /\ pulling
    /\ stats' = NewStats(now)
    /\ \E outcome \in {"ok", "ConnectError", "status"} :
         IF outcome = "ok"
         THEN /\ gen' = "read"
              /\ conn' = "open"
              /\ UNCHANGED <<error, pulling>>
         ELSE IF outcome = "ConnectError"
         THEN /\ Raise("OllamaError: cannot connect")
              /\ UNCHANGED conn
         ELSE /\ Raise("OllamaError: status")
              /\ conn' = ExitStream("open", "exception")
    /\ UNCHANGED <<inputVars, memoryVars, appVars, toolHist, now, pc, line, toolIdx,
                   events, received>>

\* `async for line in response.aiter_lines()`: the next line arrives and is
\* parsed, or the connection ends, or the read fails
ReadLine ==
    /\ gen = "read" /\ pulling
    /\ \E d \in ClockSteps : now' = Tick(now, d)
    /\ \/ /\ Len(received) < MaxLines
          /\ \E l \in ServerLines(driver) :
               /\ received' = Append(received, l)
               /\ IF l.raw = "empty" \/ ~JsonLoadsOk(l)
                  THEN \* `continue`
                       /\ UNCHANGED <<line, toolIdx, gen>>
                  ELSE /\ line' = l
                       /\ toolIdx' = 1
                       /\ gen' = IF FindToolCalls(l) # <<>> THEN "tools" ELSE "content"
          /\ UNCHANGED <<stats, error, pulling, conn>>
       \/ /\ gen' = "final"
          /\ conn' = ExitStream(conn, "normal")
          /\ UNCHANGED <<line, received, toolIdx, stats, error, pulling>>
       \/ /\ stats' = [stats EXCEPT !.end_time = now']
          /\ Raise("OllamaError: timed out")
          /\ conn' = ExitStream(conn, "exception")
          /\ UNCHANGED <<line, received, toolIdx>>
       \/ /\ Raise("ReadError")
          /\ conn' = ExitStream(conn, "exception")
          /\ UNCHANGED <<line, received, toolIdx, stats>>
    /\ UNCHANGED <<inputVars, memoryVars, appVars, toolHist, pc, events>>

\* a mistaken loop that walks the tool list from its end
ToolAtFromEnd(tool_list, i) == tool_list[Len(tool_list) + 1 - i]

\* `for tool_call in tool_list`: the entry the loop visits at its i-th round
ToolAt(tool_list, i) == tool_list[i]

\* `for tool_call in tool_list`: one entry of the line's tool list
ToolStep ==
    /\ gen = "tools" /\ pulling
    /\ IF toolIdx > Len(FindToolCalls(line))
       THEN /\ gen' = "content"
            /\ UNCHANGED <<toolIdx, toolHist, error, pulling, events, conn>>
       ELSE LET tc == [name |-> ToolAt(FindToolCalls(line), toolIdx).name,
                       arguments |->
                           ParseArgs(ToolAt(FindToolCalls(line), toolIdx).arguments)]
            IN
            IF tc.name = ""
            THEN /\ toolIdx' = toolIdx + 1
                 /\ UNCHANGED <<gen, toolHist, error, pulling, events, conn>>
            ELSE
              /\ IF tool_executor = "safe_tool_executor"
                 THEN IF BindsTo(safe_tool_executor_params,
                                 ExecutorCallArgs(tc.name, tc.arguments))
                      THEN /\ attempted' = Append(attempted, Attempt(tc, FALSE))
                           /\ confirmations' =
                                Append(confirmations,
                                       [name |-> tc.name, arguments |-> tc.arguments,
                                        answer |-> safe_tool_executor(userAnswer)])
                           /\ Yield(ToolCallEvent(tc.name, tc.arguments,
                                                  safe_tool_executor(userAnswer)))
                           /\ toolIdx' = toolIdx + 1
                           /\ UNCHANGED <<gen, error, handlerRuns, conn>>
                      ELSE /\ attempted' = Append(attempted, Attempt(tc, TRUE))
                           /\ Raise("TypeError")
                           /\ conn' = ExitStream(conn, "exception")
                           /\ UNCHANGED <<toolIdx, events, confirmations, handlerRuns>>
                 ELSE \E outcome \in CallOutcomes(tc.name, tc.arguments) :
                        LET r == execute_tool_call(tc.name, outcome) IN
                        /\ attempted' =
                             Append(attempted,
                                    Attempt(tc, /\ tc.name \in FUNCTION_HANDLERS
                                                /\ outcome # "ok"))
                        /\ handlerRuns' =
                             IF r.ran THEN Append(handlerRuns, tc) ELSE handlerRuns
                        /\ IF r.raised
                           THEN /\ Raise("SystemExit")
                                /\ conn' = ExitStream(conn, "exception")
                                /\ UNCHANGED <<toolIdx, events, confirmations>>
                           ELSE /\ Yield(ToolCallEvent(tc.name, tc.arguments,
                                                       r.result))
                                /\ toolIdx' = toolIdx + 1
                                /\ UNCHANGED <<gen, error, confirmations, conn>>
    /\ UNCHANGED <<inputVars, memoryVars, appVars, now, pc, line, stats, received>>

\* a mistaken bookkeeping that stamps first_token_time on every chunk
RecordTokenEveryChunk(st, content, t) ==
    [st EXCEPT !.first_token_time = t, !.full_text = @ \o content]

\* `if stats.first_token_time is None: ...; stats.full_text += content`
RecordToken(st, content, t) ==
    [st EXCEPT !.first_token_time = IF @ = 0 THEN t ELSE @,
               !.full_text = @ \o content]

\* `if content:` records the first token time, accumulates and yields
Content ==
    /\ gen = "content" /\ pulling
    /\ IF line.content # <<>>
       THEN /\ stats' = RecordToken(stats, line.content, now)
            /\ Yield(TokenEvent(line.content))
            /\ gen' = "donecheck"
            /\ UNCHANGED conn
       ELSE /\ AfterContent(stats, line)
            /\ UNCHANGED <<events, pulling>>
    /\ UNCHANGED <<inputVars, memoryVars, appVars, toolHist, now, pc, line, toolIdx,
                   error, received>>

\* resumed after a token: `if data.get("done", False)`
DoneCheck ==
    /\ gen = "donecheck" /\ pulling
    /\ AfterContent(stats, line)
    /\ UNCHANGED <<inputVars, memoryVars, appVars, toolHist, now, pc, line, toolIdx,
                   error, received, events, pulling>>

\* after the loop: end_time, update_token_count, the final stats event
Final ==
    /\ gen = "final" /\ pulling
    /\ LET st == update_token_count(
                    IF stats.end_time = 0
                    THEN [stats EXCEPT !.end_time = now] ELSE stats)
       IN /\ stats' = st
          /\ Yield(StatsEvent(st))
    /\ gen' = "end"
    /\ UNCHANGED <<inputVars, memoryVars, appVars, toolHist, now, pc, line, toolIdx,
                   error, conn, received>>

\* resumed after the stats event: the generator returns
Return ==
    /\ gen = "end" /\ pulling
    /\ gen' = "exhausted"
    /\ pulling' = FALSE
    /\ UNCHANGED <<inputVars, memoryVars, appVars, toolHist, now, pc, line, toolIdx,
                   stats, error, conn, received, events>>

Engine == Open \/ ReadLine \/ ToolStep \/ Content \/ DoneCheck \/ Final \/ Return

(* ------------------- a consumer that drains one call ------------------ *)
DrainCall ==
    /\ driver \in Drains /\ pc = "idle"
    /\ pc' = "streaming"
    /\ gen' = "start"
    /\ pulling' = TRUE
    /\ UNCHANGED <<inputVars, memoryVars, appVars, toolHist, now, line, toolIdx, stats,
                   error, conn, events, received>>

DrainNext ==
    /\ driver \in Drains /\ pc = "streaming"
    /\ ~pulling /\ gen \notin {"exhausted", "raised"}
    /\ pulling' = TRUE
    /\ UNCHANGED <<inputVars, memoryVars, appVars, toolHist, now, pc, gen, line, toolIdx,
                   stats, error, conn, events, received>>

DrainEnd ==
    /\ driver \in Drains /\ pc = "streaming"
    /\ gen \in {"exhausted", "raised"}
    /\ pc' = "done"
    /\ UNCHANGED <<inputVars, memoryVars, appVars, toolHist, now, gen, pulling, line,
                   toolIdx, stats, error, conn, events, received>>

NextEngine ==
    \/ Open \/ ReadLine \/ ToolStep \/ Content \/ DoneCheck \/ Final \/ Return
    \/ DrainCall \/ DrainNext \/ DrainEnd

SpecEngine == InitEngine /\ [][NextEngine]_vars

\* a consumer that leaves its `async for` at an event: the generator is
\* dropped where it is suspended and finalised with aclose()
DrainStop ==
    /\ driver = "drain stop" /\ pc = "streaming"
    /\ ~pulling /\ gen \notin {"exhausted", "raised"}
    /\ gen' = "abandoned"
    /\ conn' = ExitStream(conn, "aclose")
    /\ pc' = "done"
    /\ UNCHANGED <<inputVars, memoryVars, appVars, toolHist, now, pulling, line,
                   toolIdx, stats, error, events, received>>

NextStop == NextEngine \/ DrainStop

\* one call pulled by a consumer that may stop at any event
SpecStop == InitDrain("drain stop") /\ [][NextStop]_vars

\* one call drained, the server sending a loaded final line
SpecDone == InitDrain("drain done") /\ [][NextEngine]_vars

\* one call drained, over a degraded transport
SpecNoise == InitDrain("drain noise") /\ [][NextEngine]_vars
\* one call drained, the server sending malformed tool arguments
SpecArguments == InitDrain("drain arguments") /\ [][NextEngine]_vars
\* one call drained, the server sending descriptors at several locations
SpecLocations == InitDrain("drain locations") /\ [][NextEngine]_vars

(* --------------------- the turn loop of async_main -------------------- *)
genVars == <<gen, pulling, line, toolIdx, stats, error, conn, events, received>>

UserTexts == {<<"h","i">>}

\* a user input arrives: state.add_message("user", ...) and the locals of
\* the streaming loop
StartTurn ==
    /\ driver = "app" /\ pc = "idle"
    /\ \E text \in UserTexts :
         /\ messages' = Append(messages, Msg("user", text))
         /\ store' = StoreAdd(use_memory, store, "user", text)
    /\ status' = "GENERATING"
    /\ current_response' = <<>>
    /\ tools_enabled' = TRUE
    /\ tool_iterations' = 0
    /\ pc' = "loop"
    /\ UNCHANGED <<inputVars, memoryVars, toolHist, now, genVars, handled, callLog, sent>>

\* a mistaken loop test that lets one more round through
LoopConditionOffByOne(iterations) == iterations <= max_tool_iterations

\* `while tool_iterations < max_tool_iterations`
LoopCondition(iterations) == iterations < max_tool_iterations

\* head of the while loop: leave it, or build the message list and call
\* chat_stream
LoopHead ==
    /\ driver = "app" /\ pc = "loop"
    /\ IF LoopCondition(tool_iterations)
       THEN /\ Len(callLog) < MaxCalls
            /\ LET ms == ReloadMessages(use_memory, messages, store) IN
               /\ messages' = ms
               /\ sent' = get_chat_messages(ms)
            /\ callLog' = Append(callLog,
                                 [tools_enabled |-> tools_enabled,
                                  tool_iterations |-> tool_iterations,
                                  raised |-> FALSE])
            /\ gen' = "start"
            /\ pulling' = TRUE
            /\ line' = NoLine
            /\ toolIdx' = 1
            /\ error' = ""
            /\ conn' = "none"
            /\ events' = <<>>
            /\ received' = <<>>
            /\ attempted' = <<>>
            /\ confirmations' = <<>>
            /\ handlerRuns' = <<>>
            /\ pc' = "streaming"
            /\ UNCHANGED stats
       ELSE /\ pc' = "finalize"
            /\ UNCHANGED <<messages, sent, callLog, genVars, toolHist>>
    /\ UNCHANGED <<inputVars, memoryVars, now, status, store, current_response,
                   tools_enabled, tool_iterations, handled>>

\* a mistaken test that forgets that tools are already disabled
ShouldRetryIgnoringTools(enabled, iterations) == iterations = 0

\* `except Exception`: retry once without tools, or leave the loop
ShouldRetry(enabled, iterations) == enabled /\ iterations = 0

ExceptBranch ==
    /\ callLog' = [callLog EXCEPT ![Len(callLog)].raised = TRUE]
    /\ IF ShouldRetry(tools_enabled, tool_iterations)
       THEN /\ tools_enabled' = FALSE
            /\ tool_iterations' = 0
            /\ pc' = "loop"
       ELSE /\ pc' = "finalize"
            /\ UNCHANGED <<tools_enabled, tool_iterations>>

\* body of the `async for`: one event of the stream.  The `break` after a
\* tool event drops the only reference to the generator; the event loop's
\* finalizer hook schedules its aclose(), which runs at the loop's next
\* suspension (`await asyncio.sleep(0.2)`), before the next call
HandleEvent ==
    /\ driver = "app" /\ pc = "streaming"
    /\ ~pulling /\ gen \notin {"exhausted", "raised"}
    /\ LET ev == events[Len(events)].ev IN
       IF ev.tool_info # <<>>
       THEN LET info == ev.tool_info[1] IN
            /\ messages' = messages \o <<AssistantCallMsg(info), ToolResultMsg(info)>>
            /\ gen' = "abandoned"
            /\ conn' = ExitStream(conn, "aclose")
            /\ IF IsMapping(info.result)
               THEN \* break, tool_called: the next round
                    /\ current_response' = <<>>
                    /\ handled' = <<info>>
                    /\ tool_iterations' = tool_iterations + 1
                    /\ pc' = "loop"
                    /\ UNCHANGED <<tools_enabled, callLog>>
               ELSE \* `"error" in tool_result` raises TypeError on a bool
                    /\ current_response' = ToolMsgText(info)
                    /\ ExceptBranch
                    /\ UNCHANGED handled
            /\ UNCHANGED pulling
       ELSE /\ current_response' =
                 IF ev.token # <<>> THEN current_response \o ev.token
                 ELSE current_response
            /\ pulling' = TRUE
            /\ UNCHANGED <<messages, gen, conn, handled, tool_iterations, pc,
                           tools_enabled, callLog>>
    /\ UNCHANGED <<inputVars, memoryVars, toolHist, now, status, store, line, toolIdx,
                   stats, error, events, received, sent>>

\* the stream ended without a tool event: `if not tool_called: break`
StreamEnd ==
    /\ driver = "app" /\ pc = "streaming"
    /\ gen = "exhausted"
    /\ pc' = "finalize"
    /\ UNCHANGED <<inputVars, memoryVars, toolHist, now, status, messages, store,
                   current_response, tools_enabled, tool_iterations, genVars,
                   handled, callLog, sent>>

\* chat_stream raised
Except ==
    /\ driver = "app" /\ pc = "streaming"
    /\ gen = "raised"
    /\ ExceptBranch
    /\ UNCHANGED <<inputVars, memoryVars, toolHist, now, status, messages, store,
                   current_response, genVars, handled, sent>>

\* after the loop: the final assistant message, status DONE
Finalize ==
    /\ driver = "app" /\ pc = "finalize"
    /\ IF current_response # <<>> /\ Strip(current_response) # <<>>
       THEN IF messages # <<>> /\ messages[Len(messages)].role = "tool"
            THEN /\ messages' = messages \o
                        << Msg("assistant", current_response),
                           Msg("assistant", current_response) >>
                 /\ store' = StoreAdd(use_memory, store, "assistant", current_response)
            ELSE IF ~(messages # <<>> /\ messages[Len(messages)].tool_calls # <<>>)
                 THEN /\ messages' = Append(messages, Msg("assistant", current_response))
                      /\ store' = StoreAdd(use_memory, store, "assistant",
                                           current_response)
                 ELSE UNCHANGED <<messages, store>>
       ELSE UNCHANGED <<messages, store>>
    /\ status' = "DONE"
    /\ pc' = "done"
    /\ UNCHANGED <<inputVars, memoryVars, toolHist, now, current_response, tools_enabled,
                   tool_iterations, genVars, handled, callLog, sent>>

Next ==
    \/ Open \/ ReadLine \/ ToolStep \/ Content \/ DoneCheck \/ Final \/ Return
    \/ StartTurn \/ LoopHead \/ HandleEvent \/ StreamEnd \/ Except \/ Finalize

Spec == Init /\ [][Next]_vars

\* the turn under the scheduling of the event loop: a step that can be
\* taken is taken
FairSpec == Spec /\ WF_vars(Next)

(* ------------------ execute_tool_call called directly ----------------- *)
Registries == {"tools.py", "tools/__init__.py"}
HandlersOf(registry) ==
    IF registry = "tools.py" THEN FUNCTION_HANDLERS ELSE PACKAGE_FUNCTION_HANDLERS

\* names put to execute_tool_call: every registered one and two unknown ones
ToolNames == FUNCTION_HANDLERS \cup PACKAGE_FUNCTION_HANDLERS \cup {"", "rm_rf"}

\* arguments put to execute_tool_call: key sets, and a list in place of a mapping
ArgumentKinds ==
    {"none", "directory", "filepath,content", "command", "code", "not a mapping"}

NoReturn == [result |-> "none", ran |-> FALSE, raised |-> FALSE, outcome |-> "none"]

InitExecute ==
    /\ InitDirect("execute_tool_call")
    /\ call \in [registry : Registries, name : ToolNames,
                  arguments : [keys : ArgumentKinds, command : {<<>>}]]
    /\ ret = NoReturn

\* execute_tool_call(name, arguments) of the chosen registry
ExecuteToolCall ==
    /\ driver = "execute_tool_call" /\ pc = "idle"
    /\ \E outcome \in CallOutcomes(call.name, call.arguments) :
         LET r == execute_tool_call_of(HandlersOf(call.registry), call.name, outcome)
         IN ret' = [result |-> r.result, ran |-> r.ran, raised |-> r.raised,
                    outcome |-> outcome]
    /\ pc' = "done"
    /\ UNCHANGED <<driver, tool_executor, use_memory, userAnswer, call, now,
                   memoryVars,
                   appVars, toolHist, genVars>>

NextExecute == ExecuteToolCall

SpecExecute == InitExecute /\ [][NextExecute]_vars

(* ---------------- read_file, write_file, list_files ------------------- *)
\* a path is a sequence of components, a component a text.  The home
\* directory is /h/u, and the process runs there
Home == << <<"h">>, <<"u">> >>
Cwd == Home
DotDot == <<".", ".">>
Components ==
    { <<"h">>, <<"u">>, <<"u","2">>, DotDot, <<"f">>, <<".","s","s","h">> }

RECURSIVE Joined(_)
\* the components of a path, each after a slash
Joined(p) == IF p = <<>> THEN <<>> ELSE <<"/">> \o Head(p) \o Joined(Tail(p))

\* str() of an absolute path
PathStr(p) == IF p = <<>> THEN <<"/">> ELSE Joined(p)

\* Path(filepath).expanduser(): `base` is "~", "/" or "." (a relative path)
Expanded(fp) ==
    IF fp.base = "~" THEN [base |-> "/", parts |-> Home \o fp.parts] ELSE fp

\* str() of the expanded path
ExpandedStr(fp) ==
    LET e == Expanded(fp) IN
    IF e.base = "/" THEN PathStr(e.parts)
    ELSE IF e.parts = <<>> THEN <<".">> ELSE Tail(Joined(e.parts))

RECURSIVE Normalize(_, _)
\* `..` steps up, and stays at the root
Normalize(done, rest) ==
    IF rest = <<>> THEN done
    ELSE IF Head(rest) = DotDot
         THEN Normalize(IF done = <<>> THEN <<>> ELSE SubSeq(done, 1, Len(done) - 1),
                        Tail(rest))
         ELSE Normalize(Append(done, Head(rest)), Tail(rest))

\* path.resolve(): absolute and free of `..` (a file system without links)
Resolve(fp) ==
    LET e == Expanded(fp) IN
    Normalize(<<>>, IF e.base = "/" THEN e.parts ELSE Cwd \o e.parts)

\* str.startswith
StartsWith(str, prefix) ==
    Len(prefix) <= Len(str) /\ SubSeq(str, 1, Len(prefix)) = prefix

\* the containment test of the three tools
InHomeByText(fp) == StartsWith(PathStr(Resolve(fp)), PathStr(Home))

important_files ==
    { <<".","b","a","s","h","r","c">>, <<".","z","s","h","r","c">>,
      <<".","p","r","o","f","i","l","e">>, <<".","s","s","h">> }

\* what the file system holds at the path: nothing, a file, a file above
\* 1 MB, a directory, or nothing and no parent directory either
FileKinds == {"missing", "file", "big", "dir", "noparent"}

NoEffect(result) == [result |-> result, reads |-> {}, writes |-> {}, mkdirs |-> {}]

read_file(fp, kind) ==
    IF ~InHomeByText(fp) THEN NoEffect("error")
    ELSE IF kind \in {"missing", "noparent"} THEN NoEffect("error")
    ELSE IF kind = "dir" THEN NoEffect("error")
    ELSE IF kind = "big" THEN NoEffect("error")
    ELSE [NoEffect("data") EXCEPT !.reads = {Resolve(fp)}]

write_file(fp, kind) ==
    IF ~InHomeByText(fp) THEN NoEffect("error")
    ELSE IF \E important \in important_files : Contains(ExpandedStr(fp), important)
    THEN NoEffect("error")
    ELSE LET path == Resolve(fp)
             made == IF kind = "noparent" /\ path # <<>>
                     THEN {SubSeq(path, 1, Len(path) - 1)} ELSE {}
         IN IF kind = "dir" \/ path = <<>>
            THEN [NoEffect("error") EXCEPT !.mkdirs = made]
            ELSE [NoEffect("success") EXCEPT !.mkdirs = made, !.writes = {path}]

list_files(fp, kind) ==
    IF ~InHomeByText(fp) THEN NoEffect("error")
    ELSE IF kind \in {"missing", "noparent"} THEN NoEffect("error")
    ELSE IF kind # "dir" THEN NoEffect("error")
    ELSE [NoEffect("files") EXCEPT !.reads = {Resolve(fp)}]

FileTools == {"read_file", "write_file", "list_files"}

PathsUpTo(n) == UNION {[1..k -> Components] : k \in 0..n}

InitFiles ==
    /\ InitDirect("file tool")
    /\ call \in [fn : FileTools, base : {"~", "/", "."}, parts : PathsUpTo(MaxPathLen)]
    /\ ret = NoEffect("none")

\* one call of a file tool
FileToolCall ==
    /\ driver = "file tool" /\ pc = "idle"
    /\ \E kind \in FileKinds :
         ret' = CASE call.fn = "read_file" -> read_file(call, kind)
                  [] call.fn = "write_file" -> write_file(call, kind)
                  [] OTHER -> list_files(call, kind)
    /\ pc' = "done"
    /\ UNCHANGED <<driver, tool_executor, use_memory, userAnswer, call, now,
                   memoryVars,
                   appVars, toolHist, genVars>>

NextFiles == FileToolCall

SpecFiles == InitFiles /\ [][NextFiles]_vars

(* ----------------------------- run_command --------------------------- *)
ALLOWED_COMMANDS ==
    { <<"d","f">>, <<"d","u">>, <<"f","r","e","e">>, <<"t","o","p">>,
      <<"h","t","o","p">>, <<"p","s">>, <<"l","s">>, <<"c","a","t">>,
      <<"h","e","a","d">>, <<"t","a","i","l">>, <<"g","r","e","p">>,
      <<"f","i","n","d">>, <<"w","h","i","c","h">>, <<"d","a","t","e">>,
      <<"u","p","t","i","m","e">>, <<"u","n","a","m","e">>,
      <<"w","h","o","a","m","i">>,
      <<"n","v","i","d","i","a","-","s","m","i">>, <<"n","v","t","o","p">>,
      <<"j","o","u","r","n","a","l","c","t","l">>,
      <<"s","y","s","t","e","m","c","t","l">>, <<"d","n","f">>,
      <<"r","p","m">>, <<"a","p","t">>, <<"a","p","t","-","g","e","t">>,
      <<"g","i","t">>, <<"p","y","t","h","o","n","3">>,
      <<"n","o","d","e">>, <<"n","p","m">>, <<"p","i","p">>, <<"r","m">>,
      <<"m","k","d","i","r">>, <<"c","p">>, <<"m","v">>,
      <<"t","o","u","c","h">>, <<"c","h","m","o","d">>,
      <<"c","h","o","w","n">>, <<"s","u","d","o">>, <<"k","i","l","l">>,
      <<"k","i","l","l","a","l","l">>, <<"p","k","i","l","l">>,
      <<"r","e","b","o","o","t">>, <<"s","h","u","t","d","o","w","n">> }

BLOCKED_COMMANDS ==
    { <<"m","k","f","s">>, <<"d","d">>, <<"f","o","r","m","a","t">> }

\* str.lower() on the capital letters the commands of the model use
LowerChar(c) ==
    CASE c = "D" -> "d"
      [] c = "F" -> "f"
      [] OTHER -> c
Lower(str) == [i \in 1..Len(str) |-> LowerChar(str[i])]

\* what subprocess.run does: the program exits with 0 or not, runs into the
\* timeout, or cannot be started (OSError)
RunOutcomes == {"zero", "nonzero", "timeout", "oserror"}

\* run_command: [result, started]; `started` tells whether a process ran.
\* ALLOWED_COMMANDS is not consulted
run_command(command, outcome) ==
    LET stripped == Strip(command) IN
    IF stripped = <<>> THEN [result |-> "error", started |-> FALSE]
    ELSE LET base_cmd == FirstWord(stripped) IN
         IF \E blocked \in BLOCKED_COMMANDS : Contains(Lower(base_cmd), blocked)
         THEN [result |-> "error", started |-> FALSE]
         ELSE CASE outcome = "timeout" -> [result |-> "error", started |-> TRUE]
                [] outcome = "oserror" -> [result |-> "error", started |-> FALSE]
                [] OTHER -> [result |-> "data", started |-> TRUE]

\* first words that are neither allowed nor blocked, or blocked by a part
\* of them
OtherCommands ==
    { <<"c","u","r","l">>, <<"b","a","s","h">>, <<"w","g","e","t">>,
      <<"D","D">>, <<"x","d","d">>,
      <<"m","k","f","s",".","e","x","t","4">>, <<"F","o","r","m","a","t">>,
      <<"n","c">> }

\* commands put to run_command: a first word alone, with an argument, and
\* after a blank; and the commands without any word
CommandInputs ==
    LET words == ALLOWED_COMMANDS \cup BLOCKED_COMMANDS \cup OtherCommands IN
    words \cup {w \o <<" ", "x">> : w \in words} \cup {<<" ">> \o w : w \in words}
          \cup {<<>>, <<" ">>}

InitCommand ==
    /\ InitDirect("run_command")
    /\ call \in [command : CommandInputs]
    /\ ret = [result |-> "none", started |-> FALSE]

\* one call of run_command
RunCommandCall ==
    /\ driver = "run_command" /\ pc = "idle"
    /\ \E outcome \in RunOutcomes : ret' = run_command(call.command, outcome)
    /\ pc' = "done"
    /\ UNCHANGED <<driver, tool_executor, use_memory, userAnswer, call, now,
                   memoryVars,
                   appVars, toolHist, genVars>>

NextCommand == RunCommandCall

SpecCommand == InitCommand /\ [][NextCommand]_vars

(* ----------------------------- is_sensitive -------------------------- *)
\* commands over the characters of "rm " up to MaxCmdLen, and commands
\* that hold "sudo"
SensitiveCommands ==
    UNION {[1..k -> {"r", "m", " "}] : k \in 0..MaxCmdLen}
    \cup { <<"s","u","d","o">>, <<"s","u","d","o"," ","x">>,
           <<"x"," ","s","u","d","o"," ","y">>, <<"x"," ","s","u","d","o"," ">>,
           <<"x","s","u","d","o">>, <<"c","p"," ","x">>, <<"l","s">> }

InitSensitive ==
    /\ InitDirect("is_sensitive")
    /\ call \in [name : ToolNames,
                  args : [keys : {"command"}, command : SensitiveCommands]]
    /\ ret = <<>>

\* one call of is_sensitive; the caller calls it twice with the same arguments
SensitiveCall ==
    /\ driver = "is_sensitive" /\ pc \in {"idle", "once"}
    /\ ret' = Append(ret, is_sensitive(call.name, call.args))
    /\ pc' = IF pc = "idle" THEN "once" ELSE "done"
    /\ UNCHANGED <<driver, tool_executor, use_memory, userAnswer, call, now,
                   memoryVars,
                   appVars, toolHist, genVars>>

NextSensitive == SensitiveCall

SpecSensitive == InitSensitive /\ [][NextSensitive]_vars

(* ------------- the transcript store (memory/store.py) ------------------ *)
\* sessions created while the app runs
MaxSessions == 2
\* rows of the messages table
MaxRows == 2

\* str(uuid.uuid4()): identifiers never seen before.  Two of them share
\* their first character
SessionIds == << <<"a","1">>, <<"b","2">>, <<"b","3">>, <<"c","4">> >>
uuid4(ss) == SessionIds[Len(ss) + 1]

\* datetime.utcnow() between two statements: the same instant or a later one
UtcSteps == {0, 1}

\* Store.create_session: INSERT INTO sessions
Store_create_session(ss, session_id) == Append(ss, [id |-> session_id, name |-> <<"n">>])

RECURSIVE Reversed(_)
Reversed(q) == IF q = <<>> THEN <<>> ELSE Reversed(Tail(q)) \o <<Head(q)>>

\* Store.list_sessions: the dictionaries built from the rows (keys "id",
\* "name", ...), latest first
Store_list_sessions(ss) == Reversed(ss)

\* id INTEGER PRIMARY KEY AUTOINCREMENT.  The newest row of a session is
\* never deleted (delete_messages compares with `<` against the timestamp of
\* a kept row), so the largest id in the table is the largest id ever used
NextId(rows) ==
    IF rows = <<>> THEN 1
    ELSE 1 + (CHOOSE n \in {rows[j].id : j \in 1..Len(rows)} :
                \A j \in 1..Len(rows) : rows[j].id <= n)

\* Store.add_message: INSERT INTO messages with timestamp utcnow()
Store_add_message(rows, session_id, role, content, t) ==
    Append(rows, [id |-> NextId(rows), session_id |-> session_id, role |-> role,
                  content |-> content, timestamp |-> t])

RECURSIVE WhereSession(_, _)
\* WHERE session_id = ?
WhereSession(rows, session_id) ==
    IF rows = <<>> THEN <<>>
    ELSE (IF Head(rows).session_id = session_id THEN <<Head(rows)>> ELSE <<>>)
         \o WhereSession(Tail(rows), session_id)

\* a mistaken ordering that puts a row ahead of the rows of its instant
InsertRowAheadOfTies(sorted, r) ==
    LET k == Cardinality({j \in 1..Len(sorted) : sorted[j].timestamp < r.timestamp})
    IN SubSeq(sorted, 1, k) \o <<r>> \o SubSeq(sorted, k + 1, Len(sorted))

\* the place of a row in idx_messages_session (session_id, timestamp, rowid):
\* after the rows with an earlier or equal timestamp and a smaller rowid
InsertRow(sorted, r) ==
    LET k == Cardinality({j \in 1..Len(sorted) : sorted[j].timestamp <= r.timestamp})
    IN SubSeq(sorted, 1, k) \o <<r>> \o SubSeq(sorted, k + 1, Len(sorted))

RECURSIVE OrderByTimestamp(_)
\* ORDER BY timestamp ASC, read off the index; rows come in rowid order
OrderByTimestamp(rows) ==
    IF rows = <<>> THEN <<>>
    ELSE InsertRow(OrderByTimestamp(SubSeq(rows, 1, Len(rows) - 1)), rows[Len(rows)])

\* Store.get_messages(session_id)
Store_get_messages(rows, session_id) == OrderByTimestamp(WhereSession(rows, session_id))

RECURSIVE DeleteWhere(_, _, _)
\* DELETE FROM messages WHERE session_id = ? AND timestamp < ?
DeleteWhere(rows, session_id, before) ==
    IF rows = <<>> THEN <<>>
    ELSE (IF Head(rows).session_id = session_id /\ Head(rows).timestamp < before
          THEN <<>> ELSE <<Head(rows)>>)
         \o DeleteWhere(Tail(rows), session_id, before)

\* Store.delete_messages(session_id, before_timestamp): the table afterwards
\* and cursor.rowcount
Store_delete_messages(rows, session_id, before) ==
    LET kept == DeleteWhere(rows, session_id, before)
    IN [rows |-> kept, rowcount |-> Len(rows) - Len(kept)]

(* ------------- SessionManager (memory/session.py) ---------------------- *)
\* SessionManager.get_messages: [] without a session
Manager_get_messages(rows, sid) ==
    IF sid = None THEN <<>> ELSE Store_get_messages(rows, sid)

\* messages[-keep_recent:] of Python: the whole list when keep_recent is 0
\* or at least the length
NegSlice(ms, n) ==
    IF n = 0 \/ n >= Len(ms) THEN ms ELSE SubSeq(ms, Len(ms) - n + 1, Len(ms))

\* SessionManager.compress_context(keep_recent) of the manager's current
\* session: the table afterwards and the number returned
compress_context(rows, sid, keep_recent) ==
    IF sid = None THEN [rows |-> rows, deleted |-> 0]
    ELSE LET ms == Manager_get_messages(rows, sid) IN
         IF Len(ms) <= keep_recent THEN [rows |-> rows, deleted |-> 0]
         ELSE LET messages_to_keep == NegSlice(ms, keep_recent)
                  threshold_timestamp == messages_to_keep[1].timestamp
                  d == Store_delete_messages(rows, sid, threshold_timestamp)
              IN [rows |-> d.rows, deleted |-> d.rowcount]

(* ------------- AppState with the memory system (state.py) -------------- *)
Roles == {"user", "assistant"}
Contents == {<<"h","i">>, <<"y","o">>}
\* a call into the store returns or raises (a locked or missing database)
StoreOutcomes == {"ok", "raise"}
\* what the user types after `/session load`
SubArgs == {<<"a">>, <<"b">>, SessionIds[1]}
\* state.system_stats: empty, or the figures the monitor delivered
StatsTexts == {<<>>, <<"C","P","U">>}

\* a handler that lets the exception of the store through
ExceptExceptionReraises(outcome) == outcome # "ok"

\* `except Exception: pass` (state.py) and `except Exception as e` (app.py)
\* around the calls into the memory system: whether the exception leaves
ExceptException(outcome) == FALSE

\* a mistaken append that puts the message first
AppendMessageAtFront(ms, role, content) == <<Msg(role, content)>> \o ms

\* self.messages.append({"role": role, "content": content})
AppendMessage(ms, role, content) == Append(ms, Msg(role, content))

\* `self.use_memory and self.session_manager and self.current_session_id`;
\* state.session_manager and state.current_session_id are set together
MemoryActive == use_memory /\ current_session_id # None

\* system_context of get_chat_messages: the prompt, then the system status
SystemContext(st) ==
    IF st = <<>> THEN SYSTEM_PROMPT ELSE SYSTEM_PROMPT \o <<"\n", "\n">> \o st

\* a lookup under the key the store uses
SessionIdFieldIsId(s) == s.id

\* s.get("session_id", "") on a dictionary of list_sessions
SessionIdField(s) == IF "session_id" \in DOMAIN s THEN s.session_id ELSE <<>>

\* [s for s in sessions if s.get("session_id", "").startswith(subarg)]
Matching(listed, subarg) ==
    SelectSeq(listed, LAMBDA s : StartsWith(SessionIdField(s), subarg))

NoCall == [op |-> "none"]

\* AppState() as app.py constructs it, before the memory system is set up
InitState ==
    /\ driver = "AppState"
    /\ use_memory = TRUE
    /\ userAnswer = "n"
    /\ InitCommon
    /\ tool_executor = "None"
    /\ call = NoCall /\ ret = <<>>

stateFrame == <<driver, tool_executor, userAnswer, status, store, current_response,
                tools_enabled, tool_iterations, handled, callLog, sent,
                toolHist, genVars, entries>>

\* app.py: the memory system is initialised; any failure turns it off
Startup ==
    /\ driver = "AppState" /\ pc = "idle"
    /\ \E outcome \in {"ok", "connect raises", "get_context raises"} :
         /\ IF outcome = "connect raises"
            THEN UNCHANGED <<sessions, manager_session_id, current_session_id>>
            ELSE /\ sessions' = Store_create_session(sessions, uuid4(sessions))
                 /\ manager_session_id' = uuid4(sessions)
                 /\ current_session_id' = uuid4(sessions)
         /\ use_memory' = (outcome = "ok")
         /\ call' = [op |-> "startup", outcome |-> outcome,
                     raised |-> ExceptException(outcome)]
    /\ pc' = "ready"
    /\ UNCHANGED <<stateFrame, now, messages, db, system_stats, ret>>

\* app.py: the monitor delivers new figures
UpdateStats ==
    /\ driver = "AppState" /\ pc = "ready"
    /\ \E st \in StatsTexts \ {system_stats} : system_stats' = st
    /\ UNCHANGED <<stateFrame, use_memory, now, pc, messages, db, sessions,
                   manager_session_id, current_session_id, call, ret>>

\* AppState.add_message(role, content)
AddMessage ==
    /\ driver = "AppState" /\ pc = "ready"
    /\ Len(messages) < MaxRows /\ Len(db) < MaxRows
    /\ \E role \in Roles, content \in Contents,
          outcome \in (IF MemoryActive THEN StoreOutcomes ELSE {"not called"}) :
         /\ messages' = AppendMessage(messages, role, content)
         /\ db' = IF outcome = "ok" /\ manager_session_id # None
                  THEN Store_add_message(db, manager_session_id, role, content, now)
                  ELSE db
         /\ now' = IF outcome = "ok" THEN Tick(now, 1) ELSE now
         /\ call' = [op |-> "add_message", role |-> role, content |-> content,
                     outcome |-> outcome, raised |-> ExceptException(outcome)]
    /\ ret' = <<>>
    /\ UNCHANGED <<stateFrame, use_memory, pc, sessions, manager_session_id,
                   current_session_id, system_stats>>

\* AppState.get_chat_messages()
GetChatMessages ==
    /\ driver = "AppState" /\ pc = "ready"
    /\ \E outcome \in (IF MemoryActive THEN StoreOutcomes ELSE {"not called"}) :
         LET ms == IF outcome = "ok"
                   THEN RowsToMessages(SelectNonSystem(
                            get_context(
                                Manager_get_messages(db, manager_session_id))))
                   ELSE messages
         IN /\ messages' = ms
            /\ ret' = <<Msg("system", SystemContext(system_stats))>>
                      \o ConvertMessages(ms)
            /\ call' = [op |-> "get_chat_messages", outcome |-> outcome,
                        raised |-> ExceptException(outcome)]
    /\ UNCHANGED <<stateFrame, use_memory, now, pc, db, sessions,
                   manager_session_id, current_session_id, system_stats>>

\* commands.py `/clear`: the list is emptied and, with the memory system, a
\* new session takes over
ClearCommand ==
    /\ driver = "AppState" /\ pc = "ready"
    /\ Len(sessions) < MaxSessions
    /\ \E outcome \in (IF MemoryActive THEN StoreOutcomes ELSE {"not called"}) :
         /\ messages' = <<>>
         /\ IF outcome = "ok"
            THEN /\ sessions' = Store_create_session(sessions, uuid4(sessions))
                 /\ manager_session_id' = uuid4(sessions)
                 /\ current_session_id' = uuid4(sessions)
            ELSE UNCHANGED <<sessions, manager_session_id, current_session_id>>
         /\ call' = [op |-> "/clear", outcome |-> outcome,
                     raised |-> ExceptException(outcome)]
    /\ ret' = <<>>
    /\ UNCHANGED <<stateFrame, use_memory, now, pc, db, system_stats>>

\* commands.py `/session new`
SessionNew ==
    /\ driver = "AppState" /\ pc = "ready"
    /\ Len(sessions) < MaxSessions
    /\ \E outcome \in (IF use_memory THEN StoreOutcomes ELSE {"not available"}) :
         /\ IF outcome = "ok"
            THEN /\ sessions' = Store_create_session(sessions, uuid4(sessions))
                 /\ manager_session_id' = uuid4(sessions)
                 /\ current_session_id' = uuid4(sessions)
                 /\ messages' = <<>>
            ELSE UNCHANGED <<sessions, manager_session_id, current_session_id,
                             messages>>
         /\ call' = [op |-> "/session new", outcome |-> outcome,
                     raised |-> ExceptException(outcome)]
    /\ ret' = <<>>
    /\ UNCHANGED <<stateFrame, use_memory, now, pc, db, system_stats>>

\* commands.py `/session load <subarg>`
SessionLoad ==
    /\ driver = "AppState" /\ pc = "ready"
    /\ \E subarg \in SubArgs,
          outcome \in (IF use_memory
                       THEN {"ok", "list_sessions raises", "get_context raises"}
                       ELSE {"not available"}) :
         LET matching == Matching(Store_list_sessions(sessions), subarg) IN
         /\ IF outcome \in {"ok", "get_context raises"} /\ matching # <<>>
            THEN /\ current_session_id' = SessionIdField(matching[1])
                 /\ messages' =
                      IF outcome = "ok"
                      THEN RowsToMessages(SelectNonSystem(
                               get_context(
                                Manager_get_messages(db, manager_session_id))))
                      ELSE messages
            ELSE UNCHANGED <<current_session_id, messages>>
         /\ call' = [op |-> "/session load", outcome |-> outcome,
                     subarg |-> subarg, raised |-> ExceptException(outcome)]
    /\ ret' = <<>>
    /\ UNCHANGED <<stateFrame, use_memory, now, pc, db, sessions,
                   manager_session_id, system_stats>>

NextState ==
    \/ Startup
    \/ UpdateStats
    \/ AddMessage
    \/ GetChatMessages
    \/ ClearCommand
    \/ SessionNew
    \/ SessionLoad

SpecState == InitState /\ [][NextState]_vars

(* ------------- the store and the session manager called directly ------- *)
\* rows of the messages table in a run of the store
MaxMessages == 3
\* values of keep_recent
KeepRecents == 0..2

InitStore ==
    /\ driver = "SessionManager"
    /\ use_memory = TRUE
    /\ userAnswer = "n"
    /\ InitCommon
    /\ tool_executor = "None"
    /\ call = NoCall /\ ret = <<>>

storeFrame == <<driver, tool_executor, use_memory, userAnswer, pc, appVars,
                toolHist, genVars, current_session_id, system_stats, entries>>

\* SessionManager.create_session(): the new session becomes the current one
CreateSession ==
    /\ driver = "SessionManager"
    /\ Len(sessions) < MaxSessions
    /\ sessions' = Store_create_session(sessions, uuid4(sessions))
    /\ manager_session_id' = uuid4(sessions)
    /\ call' = [op |-> "create_session"]
    /\ ret' = uuid4(sessions)
    /\ UNCHANGED <<storeFrame, now, db>>

\* SessionManager.load_session(session_id) of a stored session
LoadSession ==
    /\ driver = "SessionManager"
    /\ \E sid \in {sessions[j].id : j \in 1..Len(sessions)} \ {manager_session_id} :
         /\ manager_session_id' = sid
         /\ call' = [op |-> "load_session", session_id |-> sid]
         /\ ret' = sid
    /\ UNCHANGED <<storeFrame, now, db, sessions>>

\* Store.add_message(session_id, role, content); the clock may move before
\* the next call
StoreAddMessage ==
    /\ driver = "SessionManager"
    /\ Len(db) < MaxMessages
    /\ \E sid \in {sessions[j].id : j \in 1..Len(sessions)}, role \in Roles, d \in UtcSteps :
         /\ db' = Store_add_message(db, sid, role, <<"h","i">>, now)
         /\ now' = Tick(now, d)
         /\ call' = [op |-> "add_message", session_id |-> sid]
         /\ ret' = NextId(db)
    /\ UNCHANGED <<storeFrame, sessions, manager_session_id>>

\* Store.get_messages(session_id)
StoreGetMessages ==
    /\ driver = "SessionManager"
    /\ \E sid \in {sessions[j].id : j \in 1..Len(sessions)} :
         /\ ret' = Store_get_messages(db, sid)
         /\ call' = [op |-> "get_messages", session_id |-> sid]
    /\ UNCHANGED <<storeFrame, now, db, sessions, manager_session_id>>

\* SessionManager.compress_context(keep_recent=k) of the current session;
\* `before` keeps the table as the call found it
CompressContext ==
    /\ driver = "SessionManager"
    /\ \E k \in KeepRecents :
         LET r == compress_context(db, manager_session_id, k) IN
         /\ db' = r.rows
         /\ ret' = r.deleted
         /\ call' = [op |-> "compress_context", keep_recent |-> k, before |-> db]
    /\ UNCHANGED <<storeFrame, now, sessions, manager_session_id>>

NextStore ==
    \/ CreateSession
    \/ LoadSession
    \/ StoreAddMessage
    \/ StoreGetMessages
    \/ CompressContext

SpecStore == InitStore /\ [][NextStore]_vars

(* ------------- MemoryStore (memory/base.py) ---------------------------- *)
\* entries held by the store in a run; far below max_entries, so that the
\* eviction of store() never starts
MaxEntries == 3

\* namespace names and keys, with and without the separator
Namespaces == { <<"a">>, <<"b">>, <<"a", ":", "b">> }
Keys == { <<"c">>, <<"b", ":", "c">> }
Values == { <<"v">>, <<"w">> }

\* _make_key: f"{namespace}:{key}"
MakeKey(key, namespace) == namespace \o <<":">> \o key

\* position of a storage key in the dictionary, 0 when absent
IndexOf(es, storage_key) ==
    IF \E j \in 1..Len(es) : es[j].key = storage_key
    THEN CHOOSE j \in 1..Len(es) : es[j].key = storage_key
    ELSE 0

\* self._entries[storage_key] = entry: a present key keeps its place
Memory_store(es, key, value, namespace) ==
    LET sk == MakeKey(key, namespace)
        j == IndexOf(es, sk)
    IN IF j = 0 THEN Append(es, [key |-> sk, value |-> value])
       ELSE [es EXCEPT ![j] = [key |-> sk, value |-> value]]

\* retrieve(key, namespace): the value, or the default None
Memory_retrieve(es, key, namespace) ==
    LET j == IndexOf(es, MakeKey(key, namespace))
    IN IF j = 0 THEN None ELSE es[j].value

RECURSIVE Without(_, _)
Without(es, ks) ==
    IF es = <<>> THEN <<>>
    ELSE (IF Head(es).key \in ks THEN <<>> ELSE <<Head(es)>>) \o Without(Tail(es), ks)

\* delete(key, namespace): the dictionary afterwards and the bool returned
Memory_delete(es, key, namespace) ==
    LET sk == MakeKey(key, namespace)
    IN [entries |-> Without(es, {sk}), deleted |-> IndexOf(es, sk) # 0]

RECURSIVE Memory_list_keys(_, _)
\* list_keys(namespace): the storage keys that start with the prefix, with
\* the prefix cut off, in dictionary order
Memory_list_keys(es, namespace) ==
    IF es = <<>> THEN <<>>
    ELSE (IF StartsWith(Head(es).key, MakeKey(<<>>, namespace))
          THEN <<SubSeq(Head(es).key, Len(MakeKey(<<>>, namespace)) + 1, Len(Head(es).key))>>
          ELSE <<>>)
         \o Memory_list_keys(Tail(es), namespace)

\* clear_namespace(namespace): the dictionary afterwards and the count
clear_namespace(es, namespace) ==
    LET keys_to_delete ==
            {es[j].key : j \in {i \in 1..Len(es) : StartsWith(es[i].key, MakeKey(<<>>, namespace))}}
    IN [entries |-> Without(es, keys_to_delete), deleted |-> Cardinality(keys_to_delete)]

InitMemory ==
    /\ driver = "MemoryStore"
    /\ use_memory = FALSE
    /\ userAnswer = "n"
    /\ InitCommon
    /\ tool_executor = "None"
    /\ call = NoCall /\ ret = <<>>

memoryFrame == <<driver, tool_executor, use_memory, userAnswer, now, pc, appVars,
                 toolHist, genVars, current_session_id, manager_session_id,
                 sessions, db, system_stats>>

\* store(key, value, namespace=ns); `before` keeps the dictionary as the
\* call found it
MemStore ==
    /\ driver = "MemoryStore"
    /\ \E key \in Keys, value \in Values, ns \in Namespaces :
         /\ IndexOf(entries, MakeKey(key, ns)) # 0 \/ Len(entries) < MaxEntries
         /\ entries' = Memory_store(entries, key, value, ns)
         /\ call' = [op |-> "store", key |-> key, namespace |-> ns, before |-> entries]
         /\ ret' = value
    /\ UNCHANGED memoryFrame

\* delete(key, namespace=ns)
MemDelete ==
    /\ driver = "MemoryStore"
    /\ \E key \in Keys, ns \in Namespaces :
         /\ entries' = Memory_delete(entries, key, ns).entries
         /\ call' = [op |-> "delete", key |-> key, namespace |-> ns, before |-> entries]
         /\ ret' = IF Memory_delete(entries, key, ns).deleted THEN <<"True">> ELSE <<"False">>
    /\ UNCHANGED memoryFrame

\* clear_namespace(ns)
MemClearNamespace ==
    /\ driver = "MemoryStore"
    /\ \E ns \in Namespaces :
         /\ entries' = clear_namespace(entries, ns).entries
         /\ call' = [op |-> "clear_namespace", key |-> <<>>, namespace |-> ns,
                     before |-> entries]
         /\ ret' = <<clear_namespace(entries, ns).deleted>>
    /\ UNCHANGED memoryFrame

NextMemory == MemStore \/ MemDelete \/ MemClearNamespace

SpecMemory == InitMemory /\ [][NextMemory]_vars

(* ============================ properties ============================== *)
RECURSIVE ToolInfos(_)
\* the tool_info of the tool events among yielded events, in order
ToolInfos(evs) ==
    IF evs = <<>> THEN <<>>
    ELSE (IF Head(evs).ev.tool_info # <<>> THEN Head(evs).ev.tool_info ELSE <<>>)
         \o ToolInfos(Tail(evs))

RECURSIVE TokenText(_)
\* concatenation of the tokens among yielded events
TokenText(evs) ==
    IF evs = <<>> THEN <<>>
    ELSE Head(evs).ev.token \o TokenText(Tail(evs))

RECURSIVE EmittedText(_)
\* concatenation of the content of received lines
EmittedText(ls) ==
    IF ls = <<>> THEN <<>>
    ELSE Head(ls).content \o EmittedText(Tail(ls))

IsTokenEvent(e) == e.ev.token # <<>>
IsToolEvent(e) == e.ev.tool_info # <<>>
IsStatsEvent(e) == e.ev.stats # <<>>

ConfirmedTrue(c) ==
    \E j \in 1..Len(confirmations) :
        /\ confirmations[j].name = c.name
        /\ confirmations[j].arguments = c.arguments
        /\ confirmations[j].answer = "True"

\* the consumer has seen how the current call dealt with its tool calls
CallSettled == pc \in {"loop", "finalize", "done"}

WasAttempted(tc) ==
    \E i \in 1..Len(attempted) :
        attempted[i].name = tc.name /\ attempted[i].arguments = tc.arguments

WasRun(tc) ==
    \E i \in 1..Len(handlerRuns) :
        handlerRuns[i].name = tc.name /\ handlerRuns[i].arguments = tc.arguments

\* a tool message for the call whose content is a refusal: the confirmer's
\* False or a mapping with an `error` key
DenialMessage(tc, ms) ==
    \E i \in 1..Len(ms) :
        /\ ms[i].role = "tool"
        /\ ms[i].name = tc.name
        /\ ms[i].content \in {JsonDumps("False"), JsonDumps("error")}

\* C1: the handler of a tool call that is_sensitive classifies as sensitive
\* runs only after the confirmer returned True for that call.
C1_SensitiveRunsOnlyConfirmed ==
    \A i \in 1..Len(handlerRuns) :
        is_sensitive(handlerRuns[i].name, handlerRuns[i].arguments)
            => ConfirmedTrue(handlerRuns[i])

C3_ConfirmerDecidesExecution ==
    /\ Len(confirmations) = Len(attempted)
    /\ \A i \in 1..Len(confirmations) :
         /\ confirmations[i].name = attempted[i].name
         /\ confirmations[i].arguments = attempted[i].arguments
         /\ LET runs == {j \in 1..Len(handlerRuns) :
                            /\ handlerRuns[j].name = attempted[i].name
                            /\ handlerRuns[j].arguments = attempted[i].arguments}
                same == {j \in 1..Len(attempted) :
                            /\ attempted[j].name = attempted[i].name
                            /\ attempted[j].arguments = attempted[i].arguments
                            /\ confirmations[j].answer = "True"}
            IN /\ Cardinality(runs) = Cardinality(same)
               /\ confirmations[i].answer = "True" =>
                    /\ i <= Len(ToolInfos(events))
                    /\ ToolInfos(events)[i].result \in
                         {HandlerResult(attempted[i].name), "error"}

RECURSIVE NamedCalls(_)
\* the entries of a tool list that name a function
NamedCalls(calls) ==
    IF calls = <<>> THEN <<>>
    ELSE (IF Head(calls).name # "" THEN <<Head(calls)>> ELSE <<>>)
         \o NamedCalls(Tail(calls))

\* the locations of a tool-call descriptor, in the order of their priority
Locations == <<"tool_calls", "top_tool_calls", "tool_use">>

\* the descriptor of a line: the one at the first location that holds one
Descriptor(l) ==
    IF \A k \in 1..Len(Locations) : l[Locations[k]] = <<>> THEN <<>>
    ELSE l[Locations[CHOOSE k \in 1..Len(Locations) :
                       /\ l[Locations[k]] # <<>>
                       /\ \A j \in 1..(k - 1) : l[Locations[j]] = <<>>]]

RECURSIVE ExpectedShape(_)
\* what the lines read so far should have produced: per line the events of
\* its calls, then its token
ExpectedShape(ls) ==
    IF ls = <<>> THEN <<>>
    ELSE LET l == Head(ls)
             calls == NamedCalls(Descriptor(l))
         IN [i \in 1..Len(calls) |-> <<"tool", calls[i].name>>]
            \o (IF l.content # <<>> THEN << <<"token", "">> >> ELSE <<>>)
            \o ExpectedShape(Tail(ls))

RECURSIVE Shape(_)
Shape(evs) ==
    IF evs = <<>> THEN <<>>
    ELSE (IF IsToolEvent(Head(evs))
          THEN << <<"tool", Head(evs).ev.tool_info[1].tool_name>> >>
          ELSE IF IsTokenEvent(Head(evs)) THEN << <<"token", "">> >>
          ELSE <<>>)
         \o Shape(Tail(evs))

IsJson(l) == l.raw = "json"
\* the lines of a stream that are JSON objects
WellFormed(ls) == SelectSeq(ls, IsJson)

Envelopes(ls) == {i \in 1..Len(ls) : IsJson(ls[i]) /\ Descriptor(ls[i]) # <<>>}

\* C4: a stream with exactly one tool-call envelope of N calls yields exactly
\* N ToolCallEvents, in envelope order, before any later text token.
C4_EnvelopeYieldsAllCalls ==
    (driver = "drain" /\ pc = "done" /\ Cardinality(Envelopes(received)) = 1)
        => Shape(events) = ExpectedShape(WellFormed(received))

\* the check of C4 that the default executor passes
C4_DefaultExecutorYieldsAllCalls ==
    tool_executor = "None" => C4_EnvelopeYieldsAllCalls

ContentOnly(ls) == \A i \in 1..Len(ls) : IsJson(ls[i]) /\ Descriptor(ls[i]) = <<>>

\* every received line has been turned into its events
LinesProcessed == gen \in {"read", "final", "end", "exhausted", "raised"}

\* C5: for a stream of content-only lines the yielded tokens concatenate to
\* the content the server emitted, first_token_time is not later than the
\* arrival of any token, and end_time is not earlier than first_token_time.
C5_ContentOnlyStream ==
    (driver = "drain" /\ gen # "none" /\ ContentOnly(received)) =>
        /\ LinesProcessed => TokenText(events) = EmittedText(received)
        /\ \A i \in 1..Len(events) :
             IsTokenEvent(events[i]) =>
                 /\ stats.first_token_time # 0
                 /\ stats.first_token_time <= events[i].at
        /\ (gen \in {"end", "exhausted"} /\ stats.first_token_time # 0)
               => stats.end_time >= stats.first_token_time

\* C5 witness: a drained content-only call with two tokens at different times
C5_Witness ==
    /\ driver = "drain" /\ gen = "exhausted" /\ ContentOnly(received)
    /\ Len(events) = 3
    /\ IsTokenEvent(events[1]) /\ IsTokenEvent(events[2])
    /\ events[1].at < events[2].at
    /\ TokenText(events) = <<"l","o","l","o">>

\* C6: a call that ends on `done` or on the end of the connection yields
\* exactly one stats event, as its last event, with empty token and no
\* tool_event; there end_time is set and not before start_time, full_text is
\* the concatenation of the yielded tokens and tokens_generated is
\* len(full_text) // 4.
C6_FinalStatsEvent ==
    /\ \A i \in 1..Len(events) :
         IsStatsEvent(events[i]) => i = Len(events) /\ gen \in {"end", "exhausted"}
    /\ gen \in {"end", "exhausted"} =>
         /\ events # <<>>
         /\ LET last == events[Len(events)] IN
            /\ IsStatsEvent(last)
            /\ last.ev.token = <<>>
            /\ last.ev.tool_info = <<>>
            /\ LET st == last.ev.stats[1] IN
               /\ st.end_time # 0
               /\ st.end_time >= st.start_time
               /\ st.full_text = TokenText(events)
               /\ st.tokens_generated = Len(st.full_text) \div 4

\* C6 witness: a finished call whose text is at least one token long
C6_Witness ==
    /\ driver = "drain" /\ gen = "exhausted"
    /\ IsStatsEvent(events[Len(events)])
    /\ events[Len(events)].ev.stats[1].tokens_generated >= 1
    /\ events[Len(events)].ev.stats[1].end_time > events[Len(events)].ev.stats[1].start_time

\* C7: a failure while executing a tool never leaves chat_stream: every
\* call handed to the executor gets its ToolCallEvent, with an `error` key
\* when its execution raised, and the call raises for stream errors only.
C7_ToolFailuresStayInside ==
    /\ error # "TypeError"
    /\ Len(ToolInfos(events)) = Len(attempted)
    /\ \A i \in 1..Len(attempted) :
         /\ ToolInfos(events)[i].tool_name = attempted[i].name
         /\ attempted[i].failed => HasErrorKey(ToolInfos(events)[i].result)

\* the part of C7 that the default executor keeps
C7_DefaultExecutorCatches ==
    tool_executor = "None" => C7_ToolFailuresStayInside

\* C8: a turn performs at most max_tool_iterations tool rounds and a bounded
\* number of chat_stream calls, and always reaches its end (status DONE).
C8_TurnIsBounded ==
    /\ [](tool_iterations <= max_tool_iterations
          /\ Len(callLog) <= max_tool_iterations + 1)
    /\ <>(pc = "done" /\ status = "DONE")

\* C8 witness: a turn that ends after the cap of five tool rounds, the
\* server asking for a tool in every response
C8_Witness ==
    /\ pc = "done" /\ status = "DONE"
    /\ tool_iterations = max_tool_iterations
    /\ Len(callLog) = max_tool_iterations + 1

\* C9: a raising chat_stream call is retried only when it was the call of
\* round 0 with tools enabled; the retry runs with tools disabled, tools stay
\* disabled, at most one call of a turn is retried and any other failure
\* ends the turn.
C9_RetryOnceWithoutTools ==
    /\ \A i \in 1..Len(callLog) :
         /\ callLog[i].raised =>
              IF callLog[i].tools_enabled /\ callLog[i].tool_iterations = 0
              THEN i < Len(callLog) =>
                     /\ ~callLog[i + 1].tools_enabled
                     /\ callLog[i + 1].tool_iterations = 0
              ELSE i = Len(callLog) /\ pc \in {"finalize", "done"}
         /\ \A j \in i..Len(callLog) :
              ~callLog[i].tools_enabled => ~callLog[j].tools_enabled
    /\ Cardinality({i \in 1..Len(callLog) :
                       callLog[i].raised /\ i < Len(callLog)}) <= 1
    /\ (callLog # <<>> /\ ~callLog[Len(callLog)].tools_enabled) => ~tools_enabled

\* C9 witness: the first call failed and was retried without tools, a tool
\* round followed and a later call failed and ended the turn
C9_Witness ==
    /\ pc = "done"
    /\ Len(callLog) = 3
    /\ callLog[1].raised /\ callLog[1].tools_enabled
    /\ ~callLog[2].raised /\ ~callLog[2].tools_enabled
    /\ callLog[3].raised /\ callLog[3].tool_iterations = 1

\* the two messages of a handled tool event, as get_chat_messages hands them on
SentPair(info) ==
    ConvertMessages(<<AssistantCallMsg(info), ToolResultMsg(info)>>)

HasPairInOrder(ms, pair) ==
    \E j \in 1..(Len(ms) - 1) : ms[j] = pair[1] /\ ms[j + 1] = pair[2]

Row(m) == [role |-> m.role, content |-> m.content]

C10_InMemoryReachNextCall ==
    (driver = "app" /\ handled # <<>> /\ ~use_memory /\ pc = "streaming")
        => HasPairInOrder(sent, SentPair(handled[1]))

\* C11: the response stream opened by chat_stream is released on every exit
\* path: a call that has left its streaming block (end of the stream, `done`,
\* an exception, or abandonment by the consumer after a tool event) holds no
\* open response stream, and a stream is open only while the call is inside
\* the block.
C11_StreamReleasedOnEveryExit ==
    /\ gen \in {"final", "end", "exhausted", "raised", "abandoned"} => conn # "open"
    /\ conn = "open" => gen \in {"read", "tools", "content", "donecheck"}
    /\ gen \in {"read", "tools", "content", "donecheck"} => conn = "open"

\* C11 witness: the turn loop abandoned a call after a tool event and the
\* call's stream is closed
C11_Witness ==
    /\ driver = "app" /\ gen = "abandoned" /\ conn = "closed"
    /\ handled # <<>>

\* C12: when the read times out the caller gets the "timed out" error and
\* the statistics are finalized over the partial text: end_time is set,
\* tokens_generated counts the text already yielded, and a stats event hands
\* these statistics to the caller.
C12_TimeoutKeepsPartialStats ==
    (gen = "raised" /\ error = "OllamaError: timed out") =>
        /\ stats.end_time # 0
        /\ stats.full_text = TokenText(events)
        /\ stats.tokens_generated = count_tokens(stats.full_text)
        /\ \E i \in 1..Len(events) :
             /\ IsStatsEvent(events[i])
             /\ events[i].ev.stats[1] = stats

\* the part of C12 that holds: the distinct error, end_time and the text
C12_TimeoutSetsEndTime ==
    (gen = "raised" /\ error = "OllamaError: timed out") =>
        /\ stats.end_time # 0
        /\ stats.full_text = TokenText(events)
        /\ error \notin {"OllamaError: cannot connect", "OllamaError: status"}

IsPrefix(a, b) == Len(a) <= Len(b) /\ a = SubSeq(b, 1, Len(a))

\* C13: the yielded events follow the order of the stream: at every moment
\* the token and tool events yielded so far are, in order, the events of the
\* lines read so far (no event of an earlier line comes after an event of a
\* later line, a token read before a tool call comes before that call's
\* event, a tool event comes before every token read after it), and once
\* the lines are processed without an error none is missing.
C13_EventsInStreamOrder ==
    /\ IsPrefix(Shape(events), ExpectedShape(WellFormed(received)))
    /\ (LinesProcessed /\ gen # "raised")
           => Shape(events) = ExpectedShape(WellFormed(received))

\* C13 witness: a drained call that yielded a token, then the two tool events
\* of the next line, then that line's token
C13_Witness ==
    /\ driver = "drain" /\ gen = "exhausted" /\ Len(received) = 2
    /\ Shape(events) = << <<"token", "">>, <<"tool", "write_file">>,
                          <<"tool", "list_files">>, <<"token", "">> >>

\* the stream errors a read can end in
ReadErrors == {"OllamaError: timed out", "ReadError"}

\* C14: lines that do not parse as JSON are skipped silently: the token and
\* tool events and full_text are those of the stream without these lines,
\* wherever the lines were inserted, and reading such a line never makes
\* chat_stream raise.
C14_MalformedLinesSkipped ==
    /\ IsPrefix(Shape(events), ExpectedShape(WellFormed(received)))
    /\ IsPrefix(TokenText(events), EmittedText(WellFormed(received)))
    /\ (LinesProcessed /\ error # "TypeError")
           => /\ Shape(events) = ExpectedShape(WellFormed(received))
              /\ TokenText(events) = EmittedText(WellFormed(received))
              /\ stats.full_text = EmittedText(WellFormed(received))
    /\ (received # <<>> /\ ~IsJson(received[Len(received)])) =>
           /\ gen \in {"read", "final", "end", "exhausted", "raised"}
           /\ gen = "raised" => error \in ReadErrors

\* C14 witness: a drained call that read a truncated line and then a line
\* with content, and yielded that content only
C14_Witness ==
    /\ driver = "drain noise" /\ gen = "exhausted"
    /\ received = <<TruncatedLine, Line(<<"l","o">>, <<>>, TRUE)>>
    /\ Shape(events) = << <<"token", "">> >>
    /\ stats.full_text = <<"l","o">>

RECURSIVE ExpectedCalls(_)
\* the named calls of the well-formed lines of a stream, in order
ExpectedCalls(ls) ==
    IF ls = <<>> THEN <<>>
    ELSE (IF IsJson(Head(ls)) THEN NamedCalls(Descriptor(Head(ls))) ELSE <<>>)
         \o ExpectedCalls(Tail(ls))

HasMalformedCall(ls) ==
    \E i \in 1..Len(ExpectedCalls(ls)) : ExpectedCalls(ls)[i].arguments = MalformedArgs

\* C15: malformed tool arguments never abort the stream: in a stream with a
\* call whose arguments do not parse, each call yielded so far carries the
\* parsed arguments, {} in place of unparseable ones, the call raises for
\* stream errors only, and once the lines are processed every call and every
\* content of the stream has its event.
C15_MalformedArgumentsDefaulted ==
    HasMalformedCall(received) =>
        /\ gen = "raised" => error \in ReadErrors
        /\ Len(ToolInfos(events)) <= Len(ExpectedCalls(received))
        /\ \A i \in 1..Len(ToolInfos(events)) :
             /\ ToolInfos(events)[i].tool_name = ExpectedCalls(received)[i].name
             /\ ToolInfos(events)[i].arguments =
                  IF ExpectedCalls(received)[i].arguments = MalformedArgs
                  THEN NoArgs ELSE ExpectedCalls(received)[i].arguments
        /\ LinesProcessed => Shape(events) = ExpectedShape(WellFormed(received))

\* the part of C15 that holds: with the default executor
C15_DefaultExecutorDefaultsArguments ==
    tool_executor = "None" => C15_MalformedArgumentsDefaulted

\* a drained call of the default executor whose line held two calls with
\* unparseable arguments: three tool events and the line's token
C15_DefaultExecutorReached ==
    /\ driver = "drain arguments" /\ tool_executor = "None" /\ gen = "exhausted"
    /\ HasMalformedCall(received)
    /\ Len(ToolInfos(events)) = 3
    /\ ToolInfos(events)[1].arguments = NoArgs
    /\ ToolInfos(events)[2].result = "error"

\* the names of the calls handed to the executor, in order
AttemptedNames == [i \in 1..Len(attempted) |-> attempted[i].name]
ExpectedNames(ls) == [i \in 1..Len(ExpectedCalls(ls)) |-> ExpectedCalls(ls)[i].name]

\* C16: the tool-call descriptor of a line is taken from message.tool_calls,
\* else from the top-level tool_calls, else from message.tool_use: the calls
\* handed to the executor are, in order, those of the first location that
\* holds a descriptor, each once, and the descriptors of later locations
\* are ignored.
C16_FirstLocationWins ==
    /\ IsPrefix(AttemptedNames, ExpectedNames(received))
    /\ (LinesProcessed /\ error # "TypeError")
           => AttemptedNames = ExpectedNames(received)

\* C16 witness: a drained call that read a line with descriptors at all three
\* locations and a line with descriptors at the two later ones, and executed
\* one call for each
C16_Witness ==
    /\ driver = "drain locations" /\ gen = "exhausted" /\ Len(received) = 2
    /\ received[1].tool_calls # <<>> /\ received[1].top_tool_calls # <<>>
    /\ received[1].tool_use # <<>>
    /\ received[2].tool_calls = <<>> /\ received[2].top_tool_calls # <<>>
    /\ received[2].tool_use # <<>>
    /\ AttemptedNames = <<"list_files", "write_file">>

\* C17: execute_tool_call never raises, whatever the name and the arguments:
\* an unknown name gives a mapping with an `error` key and no handler is
\* called; an exception of the handler call (arguments that do not bind, or
\* any exception of the handler's body) gives a mapping with an `error` key.
C17_ExecuteNeverRaises ==
    (driver = "execute_tool_call" /\ pc = "done") =>
        /\ ~ret.raised
        /\ call.name \notin HandlersOf(call.registry)
               => HasErrorKey(ret.result) /\ ~ret.ran
        /\ (call.name \in HandlersOf(call.registry) /\ ret.outcome # "ok")
               => HasErrorKey(ret.result)

\* the part of C17 that holds: every outcome but the SystemExit of code run
\* by run_python
C17_ExceptionsAreCaught ==
    (driver = "execute_tool_call" /\ pc = "done" /\ ret.outcome # "exit")
        => C17_ExecuteNeverRaises

\* calls of the part that holds: arguments that do not bind, and an unknown name
C17_ExceptionsAreCaughtReached ==
    /\ driver = "execute_tool_call" /\ pc = "done"
    /\ call.name = "write_file" /\ call.arguments.keys = "not a mapping"
    /\ ret.outcome = "TypeError" /\ ret.result = "error" /\ ~ret.ran

\* the resolved path is the home directory or lies below it
InsideHome(fp) == IsPrefix(Home, Resolve(fp))

\* C18: read_file, write_file and list_files are confined to the home
\* directory: for every path whose resolved form is not inside it (relative
\* `..` paths and siblings whose name starts with the home directory's name
\* included) the call returns a mapping with an `error` key and reads,
\* writes and creates nothing.
C18_FileToolsConfinedToHome ==
    (driver = "file tool" /\ pc = "done" /\ ~InsideHome(call)) =>
        /\ HasErrorKey(ret.result)
        /\ ret.reads = {} /\ ret.writes = {} /\ ret.mkdirs = {}

\* the part of C18 that holds: paths whose resolved text does not start with
\* the text of the home directory
C18_RefusedUnlessTextPrefix ==
    (driver = "file tool" /\ pc = "done" /\ ~InsideHome(call)
        /\ ~StartsWith(PathStr(Resolve(call)), PathStr(Home)))
        => C18_FileToolsConfinedToHome

\* a relative path that climbs out of the home directory was refused
C18_ClimbingPathRefused ==
    /\ driver = "file tool" /\ pc = "done"
    /\ call.fn = "read_file" /\ call.base = "."
    /\ call.parts = <<DotDot, DotDot, <<"f">> >>
    /\ ret.result = "error"

\* the first word of a command, <<>> when it has none
BaseCommand(command) == FirstWord(Strip(command))

\* C19: run_command starts a subprocess only when the first word of the
\* command is in ALLOWED_COMMANDS; for every other command it returns a
\* mapping with an `error` key and starts no process.
C19_OnlyAllowedCommandsRun ==
    (driver = "run_command" /\ pc = "done") =>
        /\ ret.started => BaseCommand(call.command) \in ALLOWED_COMMANDS
        /\ BaseCommand(call.command) \notin ALLOWED_COMMANDS
               => HasErrorKey(ret.result) /\ ~ret.started

\* the part of C19 that holds: the empty command and a first word that
\* contains a blocked name are refused without a process
C19_BlockedCommandsRefused ==
    (driver = "run_command" /\ pc = "done"
        /\ \/ BaseCommand(call.command) = <<>>
           \/ \E blocked \in BLOCKED_COMMANDS :
                 Contains(Lower(BaseCommand(call.command)), blocked))
        => HasErrorKey(ret.result) /\ ~ret.started

\* `DD x` was refused
C19_BlockedCommandsRefusedReached ==
    /\ driver = "run_command" /\ pc = "done"
    /\ call.command = <<"D","D"," ","x">>
    /\ ret.result = "error" /\ ~ret.started

RmBlank == <<"r", "m", " ">>
SudoBlank == <<"s", "u", "d", "o", " ">>

\* C20: is_sensitive returns True for write_file, system_update and
\* run_python whatever the arguments; for run_command True exactly when the
\* first word of the command is a destructive verb or the command, without
\* its surrounding blanks, contains "rm " or "sudo "; False for every other
\* tool and for an empty command; a second call with the same arguments
\* returns the same.
C20_SensitiveClassification ==
    (driver = "is_sensitive" /\ ret # <<>>) =>
        /\ \A i \in 1..Len(ret) :
             ret[i] =
               IF call.name \in {"write_file", "system_update", "run_python"}
               THEN TRUE
               ELSE IF call.name = "run_command"
               THEN \/ BaseCommand(call.args.command) \in dangerous
                    \/ Contains(Strip(call.args.command), RmBlank)
                    \/ Contains(Strip(call.args.command), SudoBlank)
               ELSE FALSE
        /\ Len(ret) = 2 => ret[1] = ret[2]

\* C20 as stated: "rm " or "sudo " anywhere in the command as given
C20_SubstringOfGivenCommand ==
    (driver = "is_sensitive" /\ ret # <<>>) =>
        \A i \in 1..Len(ret) :
             ret[i] =
               IF call.name \in {"write_file", "system_update", "run_python"}
               THEN TRUE
               ELSE IF call.name = "run_command"
               THEN \/ BaseCommand(call.args.command) \in dangerous
                    \/ Contains(call.args.command, RmBlank)
                    \/ Contains(call.args.command, SudoBlank)
               ELSE FALSE

\* C20 witness: a command classified twice as sensitive for its "rm " alone
C20_Witness ==
    /\ driver = "is_sensitive" /\ pc = "done"
    /\ call.name = "run_command"
    /\ call.args.command = <<"r", "r", "m", " ", "r">>
    /\ BaseCommand(call.args.command) \notin dangerous
    /\ ret = <<TRUE, TRUE>>

SystemThenMessages(ms) ==
    <<Msg("system", SystemContext(system_stats))>> \o ConvertMessages(ms)

\* C22: a failing store never fails the caller: the start-up, add_message and
\* get_chat_messages do not raise; a failed start-up turns persistence off;
\* add_message with a failing store still appends to the in-memory list; and
\* get_chat_messages with a failing store returns the system prompt followed
\* by the in-memory messages.
C22_StoreFailuresAreSwallowed ==
    /\ []((driver = "AppState" /\ call.op \in {"startup", "add_message", "get_chat_messages"}) =>
            /\ ~call.raised
            /\ (call.op = "startup" /\ call.outcome # "ok") => ~use_memory)
    /\ [][(AddMessage /\ call'.outcome = "raise") =>
            messages' = Append(messages, Msg(call'.role, call'.content))]_vars
    /\ [][(GetChatMessages /\ call'.outcome = "raise") =>
            /\ messages' = messages
            /\ ret' = SystemThenMessages(messages)]_vars

C22_Witness ==
    /\ driver = "AppState" /\ use_memory
    /\ call.op = "get_chat_messages" /\ call.outcome = "raise"
    /\ Len(messages) = 2 /\ db = <<>>
    /\ Len(ret) = 3

\* C23: with persistence disabled, get_chat_messages returns one message
\* more than the in-memory list: first a `system` message that carries the
\* system prompt, then the added messages in order with role and content
\* unchanged; and add_message appends exactly one message at the end and
\* leaves the earlier ones as they were.
C23_DisabledPersistence ==
    /\ []((driver = "AppState" /\ ~use_memory /\ call.op = "get_chat_messages") =>
            /\ Len(ret) = Len(messages) + 1
            /\ ret[1].role = "system"
            /\ IsPrefix(SYSTEM_PROMPT, ret[1].content)
            /\ \A j \in 1..Len(messages) :
                 /\ ret[j + 1].role = messages[j].role
                 /\ ret[j + 1].content = messages[j].content)
    /\ [][(AddMessage /\ ~use_memory) =>
            /\ Len(messages') = Len(messages) + 1
            /\ SubSeq(messages', 1, Len(messages)) = messages
            /\ messages'[Len(messages')].role = call'.role
            /\ messages'[Len(messages')].content = call'.content]_vars

C23_Witness ==
    /\ driver = "AppState" /\ ~use_memory
    /\ call.op = "get_chat_messages"
    /\ Len(messages) = 2 /\ messages[1] # messages[2]
    /\ system_stats # <<>>

ToolEventCount(evs) == Cardinality({j \in 1..Len(evs) : IsToolEvent(evs[j])})

\* C24: tool calls are executed one at a time in server order: the calls
\* handed to the executor are, in order, a prefix of the named calls of the
\* lines read; a call is handed over only while the consumer is pulling and
\* when every earlier call has had its event yielded; and once the consumer
\* has stopped pulling, no further call is executed and no event is yielded.
C24_ToolCallsOneAtATime ==
    /\ [](IsPrefix(AttemptedNames, ExpectedNames(received)))
    /\ [][attempted' # attempted =>
            /\ pulling
            /\ Len(attempted') = Len(attempted) + 1
            /\ Len(attempted) = ToolEventCount(events)]_vars
    /\ [][gen = "abandoned" =>
            /\ gen' = "abandoned"
            /\ attempted' = attempted
            /\ handlerRuns' = handlerRuns
            /\ events' = events]_vars

C24_Witness ==
    /\ driver = "drain stop" /\ gen = "abandoned"
    /\ Len(FindToolCalls(line)) = 3 /\ toolIdx = 2
    /\ Len(attempted) = 1 /\ ToolEventCount(events) = 1

IsDoneLine(l) == IsJson(l) /\ l.done
StatsEventCount(evs) == Cardinality({j \in 1..Len(evs) : IsStatsEvent(evs[j])})

\* C25: `done` is terminal: a line with done = true is the last line read;
\* once it is processed the token and tool events are exactly those of the
\* lines read, the done line's own calls and content included, and the only
\* event after them is the single stats event.
C25_DoneIsTerminal ==
    /\ \A j \in 1..(Len(received) - 1) : ~IsDoneLine(received[j])
    /\ (received # <<>> /\ IsDoneLine(received[Len(received)])
        /\ gen \in {"final", "end", "exhausted"}) =>
          /\ Shape(events) = ExpectedShape(WellFormed(received))
          /\ \A i \in 1..Len(events) : IsStatsEvent(events[i]) => i = Len(events)
          /\ StatsEventCount(events) = (IF gen = "final" THEN 0 ELSE 1)

C25_Witness ==
    /\ driver = "drain done" /\ gen = "exhausted" /\ Len(received) = 2
    /\ received[2] \in DoneLines
    /\ Shape(events) = << <<"token", "">>, <<"tool", "list_files">>, <<"token", "">> >>
    /\ IsStatsEvent(events[Len(events)])

FinalMessage == Msg("assistant", current_response)

C26_OnceWithoutToolRounds ==
    (driver = "app" /\ pc = "done" /\ Strip(current_response) # <<>>
     /\ \A j \in 1..Len(messages) : messages[j].role # "tool") =>
        /\ messages # <<>>
        /\ messages[Len(messages)] = FinalMessage
        /\ Len(messages) >= 2 => messages[Len(messages) - 1] # FinalMessage

\* C27: in every message list handed to the engine a message has null
\* content exactly when it carries tool_calls.
C27_NullContentIffToolCalls ==
    driver = "app" =>
        \A j \in 1..Len(sent) : (sent[j].content = None) <=> (sent[j].tool_calls # <<>>)

C27_Witness ==
    /\ driver = "app" /\ pc = "streaming" /\ Len(sent) = 4
    /\ sent[2].role = "user"
    /\ sent[3].tool_calls # <<>> /\ sent[3].content = None
    /\ sent[4].role = "tool" /\ sent[4].content # None

RECURSIVE OtherSessions(_, _)
OtherSessions(rows, sid) ==
    IF rows = <<>> THEN <<>>
    ELSE (IF Head(rows).session_id # sid THEN <<Head(rows)>> ELSE <<>>)
         \o OtherSessions(Tail(rows), sid)

\* C29: compress_context(keep_recent = k) on a session with more than k
\* messages leaves exactly the k most recent ones, in their order, returns
\* the number it removed and touches no other session; with at most k
\* messages, or without an active session, it deletes nothing and returns 0.
C29_CompressKeepsMostRecent ==
    (driver = "SessionManager" /\ call.op = "compress_context") =>
        LET sid == manager_session_id
            old == WhereSession(call.before, sid)
            k == call.keep_recent
        IN IF sid # None /\ Len(old) > k
           THEN /\ WhereSession(db, sid) = SubSeq(old, Len(old) - k + 1, Len(old))
                /\ ret = Len(old) - k
                /\ OtherSessions(db, sid) = OtherSessions(call.before, sid)
           ELSE db = call.before /\ ret = 0

\* the part of C29 that holds: what is removed is a run of the oldest
\* messages of the session, the number returned is the number removed, and
\* with distinct timestamps and k > 0 exactly the k most recent remain
C29_CompressRemovesOldest ==
    (driver = "SessionManager" /\ call.op = "compress_context") =>
        LET sid == manager_session_id
            old == WhereSession(call.before, sid)
            new == WhereSession(db, sid)
            k == call.keep_recent
        IN /\ ret = Len(call.before) - Len(db)
           /\ OtherSessions(db, sid) = OtherSessions(call.before, sid)
           /\ new = SubSeq(old, Len(old) - Len(new) + 1, Len(old))
           /\ (sid = None \/ Len(old) <= k) => db = call.before
           /\ (sid # None /\ Len(old) > k /\ k > 0
               /\ \A i, j \in 1..Len(old) : i < j => old[i].timestamp < old[j].timestamp)
                  => Len(new) = k

\* what a namespace shows: the value under every key, and its key list
ViewOf(es, ns) ==
    [values |-> [k \in Keys |-> Memory_retrieve(es, k, ns)],
     keys |-> Memory_list_keys(es, ns)]

HasSeparator(name) == \E j \in 1..Len(name) : name[j] = ":"

Wrote == driver = "MemoryStore" /\ call.op \in {"store", "delete", "clear_namespace"}

\* C30: namespaces isolate keys: store, delete and clear_namespace on one
\* namespace leave retrieve and list_keys of every other namespace as they
\* were, also for names and keys that contain the separator ':'.
C30_NamespacesIsolateKeys ==
    Wrote =>
        \A ns2 \in Namespaces \ {call.namespace} :
            ViewOf(entries, ns2) = ViewOf(call.before, ns2)

\* the part of C30 that holds: namespaces whose names are free of the
\* separator are isolated from each other, whatever the keys
C30_IsolationWithoutSeparator ==
    (Wrote /\ ~HasSeparator(call.namespace)) =>
        \A ns2 \in Namespaces \ {call.namespace} :
            ~HasSeparator(ns2) => ViewOf(entries, ns2) = ViewOf(call.before, ns2)

====
